---------------------------- MODULE Spec2Model ----------------------------
(***************************************************************************)
(* Hybrid career recommender (model/model.py) and the request handler that *)
(* calls it (app.py).                                                      *)
(*                                                                         *)
(* Numbers.  Python floats are modelled by exact rationals <<n, d>> in     *)
(* lowest terms with d > 0.  Raw cosine similarities are integers counted  *)
(* in units of 1e-9 (the epsilon of _scale_sims_to_0_1 is then 1 unit).    *)
(* x ** 0.6 is irrational in general, so the uplift and the rounding to an *)
(* integer score are modelled together: round(100 * x^(3/5)) is found by   *)
(* comparing n^3 * 200^5 with (2k+1)^5 * d^3 in multi-limb arithmetic.     *)
(*                                                                         *)
(* Strings are TLA+ strings; `kw in text` is modelled by a substring       *)
(* search and str.lower() by a character table.                            *)
(***************************************************************************)
EXTENDS Integers, Sequences, FiniteSets, TLC

VARIABLES
    args,               \* arguments of the function under test
    ret,                \* its return value
    done,               \* whether the function has been applied
    provider,           \* the Embedding Provider: which deterministic encoder it is
    files,              \* the corpus source: the JSON at the configured and at the fallback path
    sbert_model,        \* _model
    career_list,        \* _career_list
    career_texts,       \* _career_texts
    career_embeddings,  \* _career_embeddings
    trait_embs,         \* _trait_embs: None, or the dict trait -> embedding
    encoded,            \* the profile text the provider was last asked to encode
    last_call,          \* the latest recommend() call: its arguments, what it did,
                        \* and whether it found the corpus cache empty
    ref_call,           \* an earlier recommend() call kept for comparison
    corpus_reads,       \* how many times the corpus JSON was opened and parsed
    corpus_encodes,     \* how many times the list of corpus texts was encoded
    trait_encodes,      \* how many trait texts were encoded
    app_phase,          \* the web process: "down", "starting", "serving" or "crashed"
    stored,             \* the user's last_recommendations in the database
    response,           \* the response to the latest recommendation request
    pc,                 \* concurrent requests: where each thread is in recommend()
    loc,                \* concurrent requests: the local variables of each thread
    trait_dicts,        \* the dict objects made by "_trait_embs = {}", by the thread that made them
    trait_owner         \* which of these dicts _trait_embs refers to

cachevars == <<sbert_model, career_list, career_texts, career_embeddings>>
countvars == <<corpus_reads, corpus_encodes, trait_encodes>>
appvars == <<app_phase, stored, response>>
racevars == <<pc, loc, trait_dicts, trait_owner>>
procvars == <<provider, files, cachevars, trait_embs, encoded, last_call, ref_call,
              countvars, appvars, racevars>>
vars == <<args, ret, done, procvars>>

-----------------------------------------------------------------------------
(* Exact rational arithmetic standing in for Python float arithmetic.      *)

RECURSIVE GCD(_, _)
GCD(a, b) == IF b = 0 THEN a ELSE GCD(b, a % b)

Abs(n) == IF n < 0 THEN -n ELSE n

Frac(n, d) ==
    LET g == GCD(Abs(n), Abs(d))
        s == IF d < 0 THEN -1 ELSE 1
    IN  <<(s * n) \div g, (s * d) \div g>>

Zero == <<0, 1>>
One  == <<1, 1>>

RAdd(a, b) == Frac(a[1] * b[2] + b[1] * a[2], a[2] * b[2])
RMul(a, b) == Frac(a[1] * b[1], a[2] * b[2])
RDiv(a, b) == Frac(a[1] * b[2], a[2] * b[1])
RLess(a, b) == a[1] * b[2] < b[1] * a[2]
RLeq(a, b) == a[1] * b[2] <= b[1] * a[2]
\* Python's max(a, b) / min(a, b): the first argument wins a tie.
RMax(a, b) == IF RLess(a, b) THEN b ELSE a
RMin(a, b) == IF RLess(b, a) THEN b ELSE a
\* max(0.0, min(1.0, x))
Clamp01(x) == RMax(Zero, RMin(One, x))

-----------------------------------------------------------------------------
(* Multi-limb naturals (little-endian, base 10000) for the comparisons the *)
(* uplift needs; TLC's integers are 32 bits wide.                          *)

BigBase == 100 * 100

RECURSIVE BigOfNat(_)
BigOfNat(n) == IF n = 0 THEN <<>> ELSE <<n % BigBase>> \o BigOfNat(n \div BigBase)

RECURSIVE BigMulCarry(_, _, _)
BigMulCarry(a, m, carry) ==
    IF a = <<>> THEN BigOfNat(carry)
    ELSE LET t == Head(a) * m + carry
         IN  <<t % BigBase>> \o BigMulCarry(Tail(a), m, t \div BigBase)

\* a * m^e, for 0 < m < 200000
RECURSIVE BigMulPow(_, _, _)
BigMulPow(a, m, e) == IF e = 0 THEN a ELSE BigMulPow(BigMulCarry(a, m, 0), m, e - 1)

\* -1, 0, 1 as a < b, a = b, a > b
RECURSIVE BigCmpFrom(_, _, _)
BigCmpFrom(a, b, i) ==
    IF i = 0 THEN 0
    ELSE IF a[i] < b[i] THEN -1
    ELSE IF a[i] > b[i] THEN 1
    ELSE BigCmpFrom(a, b, i - 1)

BigCmp(a, b) ==
    IF Len(a) < Len(b) THEN -1
    ELSE IF Len(a) > Len(b) THEN 1
    ELSE BigCmpFrom(a, b, Len(a))

-----------------------------------------------------------------------------
(* Python strings, lists and dicts.  A dict is a sequence of <<key, value>> *)
(* pairs with distinct keys, in insertion order.                           *)

UpperChars == "ABCDEFGHIJKLMNOPQRSTUVWXYZ"
LowerChars == "abcdefghijklmnopqrstuvwxyz"

UpperSet == { SubSeq(UpperChars, i, i) : i \in 1..Len(UpperChars) }

LowerOf == [c \in UpperSet |->
              LET i == CHOOSE j \in 1..Len(UpperChars) : SubSeq(UpperChars, j, j) = c
              IN  SubSeq(LowerChars, i, i)]

LowerChar(c) == IF c \in UpperSet THEN LowerOf[c] ELSE c

\* s.lower()
RECURSIVE Lower(_)
Lower(s) == IF s = "" THEN "" ELSE LowerChar(Head(s)) \o Lower(Tail(s))

\* s.strip(), for the blank as the only whitespace
RECURSIVE Strip(_)
Strip(s) ==
    IF s = "" THEN ""
    ELSE IF Head(s) = " " THEN Strip(Tail(s))
    ELSE IF SubSeq(s, Len(s), Len(s)) = " " THEN Strip(SubSeq(s, 1, Len(s) - 1))
    ELSE s

\* kw in text
Contains(kw, text) ==
    \E i \in 1..(Len(text) - Len(kw) + 1) : SubSeq(text, i, i + Len(kw) - 1) = kw

\* sep.join(parts)
RECURSIVE Join(_, _)
Join(sep, parts) ==
    IF parts = <<>> THEN ""
    ELSE IF Len(parts) = 1 THEN parts[1]
    ELSE parts[1] \o sep \o Join(sep, Tail(parts))

\* key in d
HasKey(d, key) == \E i \in 1..Len(d) : d[i][1] = key

\* d.get(key, default)
Get(d, key, default) ==
    IF HasKey(d, key) THEN d[CHOOSE i \in 1..Len(d) : d[i][1] = key][2] ELSE default

\* d[key] = val
Put(d, key, val) ==
    IF HasKey(d, key)
    THEN [i \in 1..Len(d) |-> IF d[i][1] = key THEN <<key, val>> ELSE d[i]]
    ELSE Append(d, <<key, val>>)

\* A request value that float() accepts, and one it rejects with ValueError.
Num(n)    == [num |-> TRUE, v |-> Frac(n, 1)]
NotNum(t) == [num |-> FALSE, v |-> t]

-----------------------------------------------------------------------------
(* Configuration (model.py, "Config / Tunables").                          *)

\* WEIGHT_SBERT, WEIGHT_TRAIT, WEIGHT_MARKS: 0.65, 0.25, 0.10
WEIGHT_SBERT == Frac(65, 100)
WEIGHT_TRAIT == Frac(25, 100)
WEIGHT_MARKS == Frac(10, 100)

\* FINAL_UPLIFT_EXP = 0.6 = UPLIFT_NUM / UPLIFT_DEN
UPLIFT_NUM == 3
UPLIFT_DEN == 5

\* final_score = int(round(... * 100.0))
SCORE_SCALE == 100

\* LABELS, in the order the loop walks them
LABELS == <<
    <<80, "Excellent match">>,
    <<60, "Great match">>,
    <<40, "Good match">>,
    <<20, "Fair match">>,
    <<0,  "Low match">> >>

\* TRAIT_KEYWORDS, in dict order
TRAIT_KEYWORDS == <<
    <<"Analytical", <<"analysis", "analyze", "analytical", "data", "statistics", "research", "modeling">> >>,
    <<"Logical",    <<"logic", "logical", "reasoning", "patterns", "algorithm", "deductive", "pattern">> >>,
    <<"Technical",  <<"programming", "software", "engineer", "technology", "technical", "coding", "developer", "it">> >>,
    <<"Practical",  <<"hands-on", "practical", "mechanical", "craft", "field", "construction", "repair", "technician">> >>,
    <<"Social",     <<"communication", "community", "counseling", "social", "customer", "service", "people">> >>,
    <<"Leadership", <<"manage", "manager", "lead", "leadership", "coordinate", "supervise", "director">> >>,
    <<"Creative",   <<"design", "creative", "art", "visual", "writer", "content", "innovation">> >> >>

\* SUBJECT_KEYWORDS
SUBJECT_KEYWORDS == <<
    <<"math",      <<"math", "mathematics", "calculus", "algebra", "statistics">> >>,
    <<"physics",   <<"physics", "mechanics", "thermodynamics", "electromagnetics">> >>,
    <<"chemistry", <<"chemistry", "chemical", "biochemistry", "organic">> >>,
    <<"biology",   <<"biology", "biological", "life science", "microbiology">> >>,
    <<"computer",  <<"computer", "programming", "computer science", "cs", "software", "coding">> >>,
    <<"english",   <<"communication", "writing", "english", "language", "literature">> >>,
    <<"science",   <<"science">> >>,
    <<"social",    <<"history", "geography", "political", "economics", "social">> >> >>

\* Python's None, and a value that is not None
None == [none |-> TRUE]
Some(v) == [val |-> v]

\* What a call does: return a value, or raise.
Returns(v) == [raised |-> FALSE, val |-> v]
Raises(e)  == [raised |-> TRUE, val |-> e]

-----------------------------------------------------------------------------
(* The Embedding Provider (SentenceTransformer.encode, util.cos_sim): an   *)
(* external, deterministic collaborator.  An embedding is identified by    *)
(* the text it encodes; the cosine of two embeddings is a fixed function   *)
(* of the two texts, one function per provider, counted in units of 1e-9.  *)

Nano == 1000 * 1000 * 1000

Providers == {
    [flat |-> TRUE,  k1 |-> 0, k2 |-> 0],
    [flat |-> FALSE, k1 |-> 7, k2 |-> 3],
    [flat |-> FALSE, k1 |-> 2, k2 |-> 5] }

\* model.encode(text, convert_to_tensor=True)
Encode(text) == [emb_of |-> text]

\* util.cos_sim(a, b), in [-1, 1]
CosSim(a, b) ==
    IF provider.flat THEN 3 * (Nano \div 10)
    ELSE (((provider.k1 * Len(a.emb_of) + provider.k2 * Len(b.emb_of)) % 21) - 10)
             * (Nano \div 10)

-----------------------------------------------------------------------------
(* _load_model, _load_careers_and_embeddings                               *)

\* MODEL_NAME
MODEL_NAME == "all-MiniLM-L6-v2"

\* A parsed JSON value of the corpus file: a string, an object (a dict), or a
\* number (with the text str() gives for it).
JStr(x)  == [t |-> "str", s |-> x]
JDict(d) == [t |-> "dict", d |-> d]
JNum(x)  == [t |-> "num", n |-> x]

\* The three shapes of the parsed file: an object with a list under "careers",
\* a bare list, an object keyed by career id.
Wrapped(items) == [shape |-> "wrapped", items |-> items]
Listed(items)  == [shape |-> "list", items |-> items]
Keyed(items)   == [shape |-> "keyed", items |-> items]

\* d.setdefault(key, default)
SetDefault(d, key, default) == IF HasKey(d, key) THEN d ELSE Append(d, <<key, default>>)

\* chosen_path: CAREERS_JSON if it exists, else model/careers_india.json if it
\* exists, else FileNotFoundError
ChosenFile ==
    IF files.configured # None THEN Returns(files.configured.val)
    ELSE IF files.fallback # None THEN Returns(files.fallback.val)
    ELSE Raises("FileNotFoundError")

\* "Normalize to list of dicts": the list the entry loop then walks
NormalizeShape(careers_raw) ==
    IF careers_raw.shape \in {"wrapped", "list"} THEN careers_raw.items
    ELSE [i \in 1..Len(careers_raw.items) |->
            LET k == careers_raw.items[i][1]
                v == careers_raw.items[i][2]
            IN  IF v.t = "dict"
                THEN JDict(SetDefault(SetDefault(v.d, "career_id", k), "title", k))
                ELSE JDict(<< <<"career_id", k>>,
                              <<"title", IF v.t = "str" THEN v.s ELSE ToString(v.n)>> >>)]

\* One pass of the "ensure fields exist" loop for the entry at 0-based index i:
\* the record it leaves in career_list, or the AttributeError of .setdefault on
\* a value that is neither a dict nor a str.
EnsureFields(entry, i) ==
    IF entry.t = "num" THEN Raises("AttributeError")
    ELSE
    LET c0 == IF entry.t = "str"
              THEN << <<"career_id", "career_" \o ToString(i)>>, <<"title", entry.s>> >>
              ELSE entry.d
        c1 == SetDefault(c0, "career_id", "career_" \o ToString(i))
        c2 == SetDefault(c1, "title", Get(c1, "career_id", ""))
        c3 == SetDefault(c2, "description", "")
        c4 == SetDefault(c3, "skills_required", Get(c3, "skills", <<>>))
        c5 == SetDefault(c4, "path", Get(c4, "career_path", <<>>))
    IN  Returns(c5)

\* [str(x) for x in xs if x]
NonEmpty(xs) == SelectSeq(xs, LAMBDA x : x # "")

\* The text that is embedded: the title twice, the description, the skills and
\* the path steps, joined by " . "
BuildText(c) ==
    LET title == Strip(Get(c, "title", ""))
        description == Strip(Get(c, "description", ""))
    IN  Join(" . ",
             (IF title # "" THEN <<title, title>> ELSE <<>>)
             \o (IF description # "" THEN <<description>> ELSE <<>>)
             \o NonEmpty(Get(c, "skills_required", <<>>))
             \o NonEmpty(Get(c, "path", <<>>)))

\* _load_careers_and_embeddings on a cold cache: the three values it stores in
\* the cache and returns, or the exception it raises before storing anything.
LoadFresh ==
    IF ChosenFile.raised THEN ChosenFile
    ELSE
    LET raw_list == NormalizeShape(ChosenFile.val)
        ensured  == [i \in 1..Len(raw_list) |-> EnsureFields(raw_list[i], i - 1)]
    IN  IF \E i \in 1..Len(ensured) : ensured[i].raised
        THEN Raises("AttributeError")
        ELSE LET list  == [i \in 1..Len(ensured) |-> ensured[i].val]
                 texts == [i \in 1..Len(list) |-> BuildText(list[i])]
             IN  Returns([career_list |-> list,
                          career_texts |-> texts,
                          career_embeddings |-> [i \in 1..Len(texts) |-> Encode(texts[i])],
                          fresh |-> TRUE])

\* Mutant: the loader never returns the cached corpus.
LoadUncached == LoadFresh

\* Mutant: the cache counts as filled as soon as _career_list is set.
CacheReadyListOnly == career_list # None

\* "if _career_list is not None and _career_embeddings is not None"
CacheReady == career_list # None /\ career_embeddings # None

\* _load_careers_and_embeddings: "return cached if present", else load
LoadCareersAndEmbeddings ==
    IF CacheReady
    THEN Returns([career_list |-> career_list.val,
                  career_texts |-> career_texts.val,
                  career_embeddings |-> career_embeddings.val,
                  fresh |-> FALSE])
    ELSE LoadFresh

-----------------------------------------------------------------------------
(* _get_trait_embeddings                                                   *)

\* text = " ".join(keywords); if not text: text = trait
TraitText(trait, keywords) ==
    LET text == Join(" ", keywords) IN IF text = "" THEN trait ELSE text

\* The dict the loop over TRAIT_KEYWORDS.items() builds.
BuildTraitEmbs ==
    [i \in 1..Len(TRAIT_KEYWORDS) |->
        <<TRAIT_KEYWORDS[i][1], Encode(TraitText(TRAIT_KEYWORDS[i][1], TRAIT_KEYWORDS[i][2]))>>]

\* The value of _trait_embs after a call of _get_trait_embeddings() that
\* starts with _trait_embs = embs; the call returns its .val
GetTraitEmbeddings(embs) == IF embs # None THEN embs ELSE Some(BuildTraitEmbs)

-----------------------------------------------------------------------------
(* Utility scoring helpers                                                 *)

RECURSIVE SeqMin(_)
SeqMin(q) == IF Len(q) = 1 THEN q[1]
             ELSE LET m == SeqMin(Tail(q)) IN IF m < q[1] THEN m ELSE q[1]

RECURSIVE SeqMax(_)
SeqMax(q) == IF Len(q) = 1 THEN q[1]
             ELSE LET m == SeqMax(Tail(q)) IN IF m > q[1] THEN m ELSE q[1]

\* span > 1e-9, with similarities in units of 1e-9
SPAN_EPS == 1
\* s / 0.6, with similarities in units of 1e-9
FLAT_DIVISOR == 600000000

\* Mutant: the flat test is span > 0, with no epsilon.
ScaleSimsNoEps(sims_list) ==
    IF sims_list = <<>> THEN <<>>
    ELSE LET s_min == SeqMin(sims_list)
             span  == SeqMax(sims_list) - s_min
         IN  IF span > 0
             THEN [i \in 1..Len(sims_list) |-> Frac(sims_list[i] - s_min, span)]
             ELSE [i \in 1..Len(sims_list) |-> Clamp01(Frac(sims_list[i], FLAT_DIVISOR))]

\* _scale_sims_to_0_1
ScaleSims(sims_list) ==
    IF sims_list = <<>> THEN <<>>
    ELSE LET s_min == SeqMin(sims_list)
             s_max == SeqMax(sims_list)
             span  == s_max - s_min
         IN  IF span > SPAN_EPS
             THEN [i \in 1..Len(sims_list) |-> Frac(sims_list[i] - s_min, span)]
             ELSE [i \in 1..Len(sims_list) |-> Clamp01(Frac(sims_list[i], FLAT_DIVISOR))]

\* How many of the keywords occur in text: kw.lower() in text
RECURSIVE CountFound(_, _)
CountFound(keywords, text) ==
    IF keywords = <<>> THEN 0
    ELSE (IF Contains(Lower(Head(keywords)), text) THEN 1 ELSE 0)
             + CountFound(Tail(keywords), text)

Max2(a, b) == IF a >= b THEN a ELSE b

\* _keyword_fraction_for_trait
KeywordFraction(trait, career_text) ==
    LET keywords == Get(TRAIT_KEYWORDS, trait, <<>>)
    IN  IF keywords = <<>> THEN Zero
        ELSE Frac(CountFound(keywords, Lower(career_text)), Max2(1, Len(keywords)))

\* The searchable text of a career, before .strip() / .lower()
CareerWords(career) ==
    Join(" ", << Get(career, "title", ""),
                 Get(career, "description", ""),
                 Join(" ", Get(career, "skills_required", <<>>)),
                 Join(" ", Get(career, "path", <<>>)) >>)

Ten == <<10, 1>>
Hundred == <<100, 1>>

\* emb_sim of one trait: max(0.0, min(1.0, (sim + 1.0) / 2.0)), or 0.0 when the
\* career embedding or the trait embedding is missing
EmbSim(trait, career_emb, embs) ==
    IF career_emb = None \/ ~HasKey(embs, trait) THEN Zero
    ELSE Clamp01(Frac(CosSim(Get(embs, trait, None), career_emb.val) + Nano, 2 * Nano))

\* Mutant: the trait weight is raw_val / 10 without the clamp to [0, 1].
RECURSIVE TraitLoopUnclamped(_, _, _, _, _, _, _)
TraitLoopUnclamped(trait_scores, text, career_emb, embs, i, accum, total_weight) ==
    IF i > Len(trait_scores) THEN Returns(<<accum, total_weight>>)
    ELSE
    LET trait   == trait_scores[i][1]
        raw_val == trait_scores[i][2]
    IN  IF ~HasKey(TRAIT_KEYWORDS, trait) /\ ~HasKey(embs, trait)
        THEN TraitLoopUnclamped(trait_scores, text, career_emb, embs, i + 1, accum, total_weight)
        ELSE IF ~raw_val.num THEN Raises("ValueError")
        ELSE
        LET trait_norm == RDiv(raw_val.v, Ten)
        IN  IF RLeq(trait_norm, Zero)
            THEN TraitLoopUnclamped(trait_scores, text, career_emb, embs, i + 1, accum, total_weight)
            ELSE TraitLoopUnclamped(trait_scores, text, career_emb, embs, i + 1,
                     RAdd(accum, RMul(trait_norm, RMax(KeywordFraction(trait, text),
                                                       EmbSim(trait, career_emb, embs)))),
                     RAdd(total_weight, trait_norm))

\* The loop over trait_scores.items(), from item i on: <<accum, total_weight>>
\* when it ends, or the exception float(raw_val) raises.
RECURSIVE TraitLoop(_, _, _, _, _, _, _)
TraitLoop(trait_scores, text, career_emb, embs, i, accum, total_weight) ==
    IF i > Len(trait_scores) THEN Returns(<<accum, total_weight>>)
    ELSE
    LET trait   == trait_scores[i][1]
        raw_val == trait_scores[i][2]
    IN  IF ~HasKey(TRAIT_KEYWORDS, trait) /\ ~HasKey(embs, trait)
        THEN TraitLoop(trait_scores, text, career_emb, embs, i + 1, accum, total_weight)
        ELSE IF ~raw_val.num THEN Raises("ValueError")
        ELSE
        LET trait_norm == RDiv(RMax(Zero, RMin(Ten, raw_val.v)), Ten)
        IN  IF RLeq(trait_norm, Zero)
            THEN TraitLoop(trait_scores, text, career_emb, embs, i + 1, accum, total_weight)
            ELSE
            LET kw_frac == KeywordFraction(trait, text)
                emb_sim == EmbSim(trait, career_emb, embs)
                per_trait_score == RMax(kw_frac, emb_sim)
            IN  TraitLoop(trait_scores, text, career_emb, embs, i + 1,
                          RAdd(accum, RMul(trait_norm, per_trait_score)),
                          RAdd(total_weight, trait_norm))

\* Mutant: a profile with no positive weight gets the neutral value 1/2.
TraitAlignmentNeutral(trait_scores, career, career_emb, embs) ==
    LET loop == TraitLoop(trait_scores, Lower(Strip(CareerWords(career))),
                          career_emb, embs, 1, Zero, Zero)
    IN  IF trait_scores = <<>> THEN Returns(Frac(1, 2))
        ELSE IF loop.raised THEN loop
        ELSE IF RLeq(loop.val[2], Zero) THEN Returns(Frac(1, 2))
        ELSE Returns(RDiv(loop.val[1], loop.val[2]))

\* _trait_alignment_score, given the dict _get_trait_embeddings() returns
TraitAlignmentScore(trait_scores, career, career_emb, embs) ==
    IF trait_scores = <<>> THEN Returns(Zero)
    ELSE
    LET text == Lower(Strip(CareerWords(career)))
        loop == TraitLoop(trait_scores, text, career_emb, embs, 1, Zero, Zero)
    IN  IF loop.raised THEN loop
        ELSE IF RLeq(loop.val[2], Zero) THEN Returns(Zero)
        ELSE Returns(RDiv(loop.val[1], loop.val[2]))

\* lvl = marks.get(level) or marks.get(level[:2]) or {}
LevelDict(marks, level) ==
    LET lvl == Get(marks, level, <<>>)
    IN  IF lvl # <<>> THEN lvl ELSE Get(marks, SubSeq(level, 1, 2), <<>>)

\* Mutant: a later level overrides an earlier one (no max).
FlattenLevelOverride(lvl, subj_scores) ==
    LET RECURSIVE Over(_, _)
        Over(i, acc) ==
            IF i > Len(lvl) THEN acc
            ELSE IF ~lvl[i][2].num THEN Over(i + 1, acc)
            ELSE Over(i + 1, Put(acc, Lower(lvl[i][1]), lvl[i][2].v))
    IN  Over(1, subj_scores)

\* for k, v in lvl.items(): subj_scores[k.lower()] = max(subj_scores.get(key, 0.0), float(v)),
\* skipping a v that float() rejects
FlattenLevel(lvl, subj_scores) ==
    LET RECURSIVE Loop(_, _)
        Loop(i, acc) ==
            IF i > Len(lvl) THEN acc
            ELSE LET key == Lower(lvl[i][1])
                     v   == lvl[i][2]
                 IN  IF ~v.num THEN Loop(i + 1, acc)
                     ELSE Loop(i + 1, Put(acc, key, RMax(Get(acc, key, Zero), v.v)))
    IN  Loop(1, subj_scores)

\* subj_scores after the loop over the levels ("twelfth", "tenth")
SubjScores(marks) ==
    FlattenLevel(LevelDict(marks, "tenth"), FlattenLevel(LevelDict(marks, "twelfth"), <<>>))

\* The loop over subj_scores.items(): <<match_accum, total_weight>>
RECURSIVE MarksLoop(_, _, _, _, _)
MarksLoop(subj_scores, text, i, match_accum, total_weight) ==
    IF i > Len(subj_scores) THEN <<match_accum, total_weight>>
    ELSE
    LET subj == subj_scores[i][1]
        val  == subj_scores[i][2]
        listed == Get(SUBJECT_KEYWORDS, subj, <<>>)
        matched_kw_list == IF listed = <<>> THEN <<subj>> ELSE listed
        frac == Frac(CountFound(matched_kw_list, text), Max2(1, Len(matched_kw_list)))
        importance == RDiv(RMax(Zero, RMin(Hundred, val)), Hundred)
    IN  MarksLoop(subj_scores, text, i + 1,
                  RAdd(match_accum, RMul(importance, frac)),
                  RAdd(total_weight, importance))

\* _marks_alignment_score
MarksAlignmentScore(marks, career) ==
    IF marks = <<>> THEN Zero
    ELSE
    LET text == Lower(CareerWords(career))
        subj_scores == SubjScores(marks)
    IN  IF subj_scores = <<>> THEN Zero
        ELSE LET loop == MarksLoop(subj_scores, text, 1, Zero, Zero)
             IN  IF RLeq(loop[2], Zero) THEN Zero
                 ELSE RDiv(loop[1], loop[2])

-----------------------------------------------------------------------------
(* recommend(): combining the three signals of one career.                 *)

\* final_norm = weight_sbert*s_norm + weight_trait*trait_score + weight_marks*marks_score
Combined(weight_sbert, weight_trait, weight_marks, s_norm, trait_score, marks_score) ==
    RAdd(RAdd(RMul(weight_sbert, s_norm), RMul(weight_trait, trait_score)),
         RMul(weight_marks, marks_score))

\* For x = n/d in [0,1]: whether SCORE_SCALE * x^(UPLIFT_NUM/UPLIFT_DEN) rounds
\* to k or lower under Python's round() (half to even), i.e. the value is
\* below k + 1/2, or equal to it with k even.
RoundsAtMost(x, k) ==
    LET lhs == BigMulPow(BigMulPow(<<1>>, x[1], UPLIFT_NUM), 2 * SCORE_SCALE, UPLIFT_DEN)
        rhs == BigMulPow(BigMulPow(<<1>>, 2 * k + 1, UPLIFT_DEN), x[2], UPLIFT_NUM)
        c   == BigCmp(lhs, rhs)
    IN  c < 0 \/ (c = 0 /\ k % 2 = 0)

\* The least k in lo..hi with RoundsAtMost(x, k); RoundsAtMost is monotone in k.
RECURSIVE LeastRound(_, _, _)
LeastRound(x, lo, hi) ==
    IF lo >= hi THEN hi
    ELSE LET mid == (lo + hi) \div 2
         IN  IF RoundsAtMost(x, mid) THEN LeastRound(x, lo, mid)
             ELSE LeastRound(x, mid + 1, hi)

\* final_norm ** FINAL_UPLIFT_EXP, then int(round(max(0.0, min(1.0, .)) * 100.0)),
\* for final_norm already in [0,1] (the power keeps it there).
UpliftRound(final_norm) ==
    IF final_norm[1] = 0 THEN 0 ELSE LeastRound(final_norm, 0, SCORE_SCALE)

\* Mutant: the two clamps are missing.
FinalScoreNoClamp(weight_sbert, weight_trait, weight_marks, s_norm, trait_score, marks_score) ==
    LET c == Combined(weight_sbert, weight_trait, weight_marks,
                      s_norm, trait_score, marks_score)
    IN  IF RLess(c, Zero) THEN -UpliftRound(Clamp01(Frac(-c[1], c[2])))
        ELSE IF RLess(One, c) THEN SCORE_SCALE + UpliftRound(Clamp01(RAdd(c, <<-1, 1>>)))
        ELSE UpliftRound(c)

\* Mutant: the lower clamp is abs() instead of max(0.0, .).
FinalScoreAbs(weight_sbert, weight_trait, weight_marks, s_norm, trait_score, marks_score) ==
    LET c == Combined(weight_sbert, weight_trait, weight_marks,
                      s_norm, trait_score, marks_score)
    IN  UpliftRound(RMin(One, Frac(Abs(c[1]), c[2])))

FinalScore(weight_sbert, weight_trait, weight_marks, s_norm, trait_score, marks_score) ==
    UpliftRound(Clamp01(Combined(weight_sbert, weight_trait, weight_marks,
                                 s_norm, trait_score, marks_score)))

\* label = "Low match"; for thresh, lab in LABELS: if final_score >= thresh: take lab, break
RECURSIVE LabelFrom(_, _)
LabelFrom(final_score, i) ==
    IF i > Len(LABELS) THEN "Low match"
    ELSE IF final_score >= LABELS[i][1] THEN LABELS[i][2]
    ELSE LabelFrom(final_score, i + 1)

\* Mutant: the thresholds are compared with > instead of >=.
MatchLabelStrict(final_score) ==
    IF final_score > 80 THEN "Excellent match"
    ELSE IF final_score > 60 THEN "Great match"
    ELSE IF final_score > 40 THEN "Good match"
    ELSE IF final_score > 20 THEN "Fair match"
    ELSE "Low match"

MatchLabel(final_score) == LabelFrom(final_score, 1)

-----------------------------------------------------------------------------
(* recommend()                                                             *)

\* round(n / d) for d > 0, half to even
RoundHalfEven(n, d) ==
    LET q == n \div d
        r == n - q * d
    IN  IF 2 * r < d THEN q
        ELSE IF 2 * r > d THEN q + 1
        ELSE IF q % 2 = 0 THEN q ELSE q + 1

\* round(x, 4) of a signal
Round4(x) == Frac(RoundHalfEven(x[1] * 10000, x[2]), 10000)

\* round(sim, 6) of a raw similarity, in units of 1e-9
Round6Nano(sim) == RoundHalfEven(sim, 1000) * 1000

\* sims_list of _cosine_similarities: the cosine of the profile embedding with
\* each cached career embedding
CosineSimilarities(profile_text, embeddings) ==
    [i \in 1..Len(embeddings) |-> CosSim(Encode(profile_text), embeddings[i])]

\* trait_embs = _get_trait_embeddings(): the dict the scorer reads
TraitEmbsStale(embs) == IF embs = None THEN <<>> ELSE embs.val

TraitEmbsSeen(embs) == GetTraitEmbeddings(embs).val

\* The rec dict of the career at index i (1-based here), or the exception the
\* trait scorer raises.  The enrichment fields copied from the career record
\* (explanation, industry, future scope, salary, subjects) are left out.
RecWith(req, loaded, sims_list, sims_scaled, i, trait) ==
    LET c == loaded.career_list[i]
        s_norm == IF i <= Len(sims_scaled) THEN sims_scaled[i] ELSE Zero
        marks_score == MarksAlignmentScore(req.marks, c)
    IN  IF trait.raised THEN trait
        ELSE
        LET final_score == FinalScore(WEIGHT_SBERT, WEIGHT_TRAIT, WEIGHT_MARKS,
                                      s_norm, trait.val, marks_score)
        IN  Returns([career_id |-> Get(c, "career_id", ""),
                     career |-> Get(c, "title", ""),
                     title |-> Get(c, "title", ""),
                     description |-> Get(c, "description", ""),
                     skills |-> Get(c, "skills_required", <<>>),
                     skills_required |-> Get(c, "skills_required", <<>>),
                     path |-> Get(c, "path", <<>>),
                     similarity |-> Round6Nano(IF i <= Len(sims_list) THEN sims_list[i] ELSE 0),
                     sbert_norm |-> Round4(s_norm),
                     trait_score |-> Round4(trait.val),
                     marks_score |-> Round4(marks_score),
                     final_score |-> final_score,
                     match_label |-> MatchLabel(final_score)])

\* career_emb = career_embeddings[i] if i < career_embeddings.size(0) else None
CareerEmb(embeddings, i) == IF i <= Len(embeddings) THEN Some(embeddings[i]) ELSE None

\* One pass of the loop over careers, with the trait index as
\* _get_trait_embeddings() returns it
RecFor(req, loaded, sims_list, sims_scaled, i) ==
    RecWith(req, loaded, sims_list, sims_scaled, i,
            TraitAlignmentScore(req.trait_scores, loaded.career_list[i],
                                CareerEmb(loaded.career_embeddings, i),
                                TraitEmbsSeen(trait_embs)))

\* Mutant: ties end up in reverse corpus order (an ascending sort, reversed).
InsertDescUnstable(sorted, rec) ==
    LET before == SelectSeq(sorted, LAMBDA x : x.final_score > rec.final_score)
        after  == SelectSeq(sorted, LAMBDA x : x.final_score <= rec.final_score)
    IN  before \o <<rec>> \o after

\* Where a stable descending sort puts rec among the records sorted so far:
\* behind every record whose final_score is at least its own.
InsertDesc(sorted, rec) ==
    LET before == SelectSeq(sorted, LAMBDA x : x.final_score >= rec.final_score)
        after  == SelectSeq(sorted, LAMBDA x : x.final_score < rec.final_score)
    IN  before \o <<rec>> \o after

\* recs.sort(key=lambda x: x.get("final_score", 0), reverse=True)
RECURSIVE SortDescFrom(_, _, _)
SortDescFrom(recs, i, sorted) ==
    IF i > Len(recs) THEN sorted
    ELSE SortDescFrom(recs, i + 1, InsertDesc(sorted, recs[i]))

SortDesc(recs) == SortDescFrom(recs, 1, <<>>)

Min2(a, b) == IF a <= b THEN a ELSE b

\* Mutant: the list is cut to top_k before it is sorted.
SortAndCutEarly(recs, top_k) == SortDesc(SubSeq(recs, 1, Min2(top_k, Len(recs))))

\* recs.sort(...); return recs[:min(top_k, len(recs))], for top_k >= 0
SortAndCut(recs, top_k) == SubSeq(SortDesc(recs), 1, Min2(top_k, Len(recs)))

\* recs before the sort: one outcome per career, in corpus order
ScoredRecs(req, loaded) ==
    LET sims_list   == CosineSimilarities(req.profile_text, loaded.career_embeddings)
        sims_scaled == ScaleSims(sims_list)
    IN  [i \in 1..Len(loaded.career_list) |->
            RecFor(req, loaded, sims_list, sims_scaled, i)]

\* What recommend(req) does once the corpus is loaded: the list it returns, or
\* the exception that ends it.
Ranking(req, loaded) ==
    LET recs == ScoredRecs(req, loaded)
    IN  IF \E i \in 1..Len(recs) : recs[i].raised
        THEN Raises("ValueError")
        ELSE Returns(SortAndCut([i \in 1..Len(recs) |-> recs[i].val], req.top_k))

\* recommend(profile_text, trait_scores, marks, top_k) with the default weights
Recommend(req) ==
    LET load == LoadCareersAndEmbeddings
    IN  IF load.raised
        THEN /\ last_call' = Some([req |-> req, out |-> load, cold |-> TRUE])
             /\ corpus_reads' = corpus_reads + (IF ChosenFile.raised THEN 0 ELSE 1)
             /\ UNCHANGED <<cachevars, trait_embs, encoded, corpus_encodes, trait_encodes>>
        ELSE /\ career_list' = Some(load.val.career_list)
             /\ career_texts' = Some(load.val.career_texts)
             /\ career_embeddings' = Some(load.val.career_embeddings)
             /\ sbert_model' = Some(MODEL_NAME)
             /\ encoded' = Some(req.profile_text)
             /\ corpus_reads' = corpus_reads + (IF load.val.fresh THEN 1 ELSE 0)
             /\ corpus_encodes' = corpus_encodes + (IF load.val.fresh THEN 1 ELSE 0)
             /\ trait_embs' = IF req.trait_scores # <<>> /\ load.val.career_list # <<>>
                              THEN GetTraitEmbeddings(trait_embs) ELSE trait_embs
             /\ trait_encodes' = trait_encodes
                                    + (IF trait_embs = None /\ trait_embs' # None
                                       THEN Len(trait_embs'.val) ELSE 0)
             /\ last_call' = Some([req |-> req, out |-> Ranking(req, load.val),
                                   cold |-> career_list = None])

-----------------------------------------------------------------------------
(* The state of a process that has served no request yet, with the first  *)
(* provider.                                                               *)
Idle ==
    /\ provider = [flat |-> TRUE, k1 |-> 0, k2 |-> 0]
    /\ files = [configured |-> None, fallback |-> None]
    /\ sbert_model = None
    /\ career_list = None
    /\ career_texts = None
    /\ career_embeddings = None
    /\ trait_embs = None
    /\ encoded = None
    /\ last_call = None
    /\ ref_call = None
    /\ corpus_reads = 0
    /\ corpus_encodes = 0
    /\ trait_encodes = 0
    /\ app_phase = "down"
    /\ stored = <<>>
    /\ response = None
    /\ pc = <<>>
    /\ loc = <<>>
    /\ trait_dicts = <<>>
    /\ trait_owner = None

-----------------------------------------------------------------------------
(* SpecScore: the score of two careers A and B within one recommend()      *)
(* call, for bounded choices of the weights and of the three signals.      *)

ScoreWeights == {
    <<WEIGHT_SBERT, WEIGHT_TRAIT, WEIGHT_MARKS>>,
    <<One, One, One>>,
    <<Frac(-1, 2), Frac(1, 4), Frac(1, 10)>>,
    <<Zero, Zero, Zero>>,
    <<Frac(1, 100), Frac(1, 100), Zero>> }

ScoreSignals ==
    { <<s, t, m>> : s \in {Zero, Frac(1, 2), One},
                    t \in {Frac(-1, 1), Zero, One},
                    m \in {Zero, Frac(99, 100), One, Frac(2, 1)} }

CombinedOf(w, sig) == Combined(w[1], w[2], w[3], sig[1], sig[2], sig[3])

ScoreInit ==
    /\ args \in [w : ScoreWeights, a : ScoreSignals, b : ScoreSignals]
    /\ ret = <<>>
    /\ done = FALSE
    /\ Idle

ScoreCall ==
    /\ ~done
    /\ ret' = [a |-> FinalScore(args.w[1], args.w[2], args.w[3],
                                args.a[1], args.a[2], args.a[3]),
               b |-> FinalScore(args.w[1], args.w[2], args.w[3],
                                args.b[1], args.b[2], args.b[3])]
    /\ done' = TRUE
    /\ UNCHANGED <<args, procvars>>

SpecScore == ScoreInit /\ [][ScoreCall]_vars

\* C1: whatever the weights and the signals, final_score is an integer in 0..100.
C1_FinalScoreInRange ==
    done => /\ ret.a \in 0..SCORE_SCALE
            /\ ret.b \in 0..SCORE_SCALE

\* C1 witness: a call whose combined score is above 1 and one whose combined
\* score is negative have both been scored.
C1_Witness ==
    /\ done
    /\ RLess(One, CombinedOf(args.w, args.a))
    /\ RLess(CombinedOf(args.w, args.b), Zero)

\* C2: combined_A > combined_B never gives final_score_A < final_score_B.
C2_UpliftMonotone ==
    (done /\ RLess(CombinedOf(args.w, args.b), CombinedOf(args.w, args.a)))
        => ret.a >= ret.b

\* C2 witness: two different combined scores inside (0,1] that the rounding ties.
C2_Witness ==
    /\ done
    /\ RLess(CombinedOf(args.w, args.b), CombinedOf(args.w, args.a))
    /\ RLess(Zero, CombinedOf(args.w, args.b))
    /\ RLeq(CombinedOf(args.w, args.a), One)
    /\ ret.a = ret.b

-----------------------------------------------------------------------------
(* SpecLabel: the label of every final_score.                              *)

LabelInit ==
    /\ args \in 0..SCORE_SCALE
    /\ ret = ""
    /\ done = FALSE
    /\ Idle

LabelCall ==
    /\ ~done
    /\ ret' = MatchLabel(args)
    /\ done' = TRUE
    /\ UNCHANGED <<args, procvars>>

SpecLabel == LabelInit /\ [][LabelCall]_vars

\* C5: match_label is the label of the first threshold the score reaches:
\* >= 80 Excellent, >= 60 Great, >= 40 Good, >= 20 Fair, otherwise Low; so
\* 80, 60, 40, 20, 0 get the five labels in order and 79 gets "Great match".
C5_LabelTable ==
    done =>
        /\ (args \in 80..100 <=> ret = "Excellent match")
        /\ (args \in 60..79  <=> ret = "Great match")
        /\ (args \in 40..59  <=> ret = "Good match")
        /\ (args \in 20..39  <=> ret = "Fair match")
        /\ (args \in 0..19   <=> ret = "Low match")

\* C5 witness: score 79 has been labelled, just below the top threshold.
C5_Witness == done /\ args = 79 /\ ret = "Great match"

-----------------------------------------------------------------------------
(* SpecScale: _scale_sims_to_0_1 on bounded similarity vectors.            *)

MaxSims == 3

SimValues == { -Nano, -2 * (Nano \div 10), 0, 1, 2,
               3 * (Nano \div 10), 3 * (Nano \div 10) + 1,
               FLAT_DIVISOR, FLAT_DIVISOR + 1, Nano }

ScaleInit ==
    /\ args \in UNION { [1..n -> SimValues] : n \in 0..MaxSims }
    /\ ret = <<>>
    /\ done = FALSE
    /\ Idle

ScaleCall ==
    /\ ~done
    /\ ret' = ScaleSims(args)
    /\ done' = TRUE
    /\ UNCHANGED <<args, procvars>>

SpecScale == ScaleInit /\ [][ScaleCall]_vars

SetMin(S) == CHOOSE m \in S : \A x \in S : m <= x
SetMax(S) == CHOOSE m \in S : \A x \in S : m >= x
SeqRange(q) == { q[i] : i \in 1..Len(q) }

\* The rational r in lowest terms equals p / q (q > 0).
IsRatio(r, p, q) == q % r[2] = 0 /\ r[1] * (q \div r[2]) = p

\* C8: the normalized vector has the length of the raw one and every element is
\* in [0,1]; with span > 1e-9 element i is (raw[i] - min) / (max - min), so the
\* minimum maps to 0 and the maximum to 1; with span <= 1e-9 element i is
\* clamp(raw[i] / 0.6, 0, 1).
C8_ScaleSims ==
    (done /\ args # <<>>) =>
        LET lo   == SetMin(SeqRange(args))
            hi   == SetMax(SeqRange(args))
            span == hi - lo
        IN  /\ Len(ret) = Len(args)
            /\ \A i \in 1..Len(ret) : 0 <= ret[i][1] /\ ret[i][1] <= ret[i][2]
            /\ span > SPAN_EPS =>
                   \A i \in 1..Len(ret) :
                       /\ IsRatio(ret[i], args[i] - lo, span)
                       /\ args[i] = lo => ret[i] = Zero
                       /\ args[i] = hi => ret[i] = One
            /\ span <= SPAN_EPS =>
                   \A i \in 1..Len(ret) :
                       IF args[i] <= 0 THEN ret[i] = Zero
                       ELSE IF args[i] >= FLAT_DIVISOR THEN ret[i] = One
                       ELSE IsRatio(ret[i], args[i], FLAT_DIVISOR)

\* C8 witness: two similarities 1e-9 apart (a non-zero span at the epsilon) were
\* scaled by the fallback, to values that are neither 0 nor 1.
C8_Witness ==
    /\ done
    /\ Len(args) = 2
    /\ args[2] - args[1] = SPAN_EPS
    /\ ret[1] \notin {Zero, One}
    /\ ret[2] \notin {Zero, One}

-----------------------------------------------------------------------------
(* SpecAlign: _trait_alignment_score and _marks_alignment_score on bounded *)
(* profiles and careers.                                                   *)

Career(career_id, title, description, skills_required, path) == <<
    <<"career_id", career_id>>, <<"title", title>>, <<"description", description>>,
    <<"skills_required", skills_required>>, <<"path", path>> >>

AlignCareers == {
    Career("c1", "Data Analyst", "analysis of data", <<"math", "coding">>, <<"degree">>),
    Career("c2", "Artist", "", <<"design">>, <<>>),
    Career("c3", "Nurse", "community care", <<>>, <<"biology">>) }

TraitProfiles == {
    <<>>,
    << <<"Technical", Num(10)>> >>,
    << <<"Technical", Num(0)>>, <<"Social", Num(0)>> >>,
    << <<"Technical", Num(-3)>>, <<"Creative", Num(0)>> >>,
    << <<"Charisma", Num(7)>> >>,
    << <<"Charisma", NotNum("high")>>, <<"Analytical", Num(0)>> >>,
    << <<"Analytical", Num(5)>>, <<"Creative", Num(12)>>, <<"Social", Num(0)>> >>,
    << <<"Charisma", Num(7)>>, <<"Technical", Num(3)>>, <<"Social", Num(8)>> >>,
    << <<"Analytical", NotNum("n/a")>> >> }

MarksProfiles == {
    <<>>,
    << <<"tenth", << <<"math", Num(90)>> >> >>, <<"twelfth", << <<"math", Num(60)>> >> >> >>,
    << <<"tenth", << <<"math", Num(60)>> >> >>, <<"twelfth", << <<"math", Num(90)>> >> >> >>,
    << <<"tenth", << <<"Math", Num(70)>>, <<"math", Num(40)>> >> >>,
       <<"twelfth", << <<"MATH", Num(80)>> >> >> >>,
    << <<"tenth", << <<"math", Num(-5)>> >> >> >>,
    << <<"tenth", << <<"math", Num(-5)>> >> >>, <<"twelfth", << <<"math", Num(-2)>> >> >> >>,
    << <<"tenth", << <<"math", Num(0)>> >> >>, <<"twelfth", << <<"biology", Num(0)>> >> >> >>,
    << <<"tenth", << <<"math", NotNum("AB")>>, <<"english", NotNum("")>> >> >> >>,
    << <<"te", << <<"design", Num(50)>> >> >>, <<"twelfth", <<>> >>, <<"tw", << <<"biology", Num(150)>> >> >> >>,
    << <<"twelfth", << <<"biology", Num(75)>>, <<"math", NotNum("AB")>> >> >>,
       <<"tenth", << <<"math", Num(35)>> >> >> >> }

AlignArgs ==
    [fn : {"trait"}, trait_scores : TraitProfiles, career : AlignCareers,
     with_emb : BOOLEAN]
    \cup [fn : {"marks"}, marks : MarksProfiles, career : AlignCareers]

AlignInit ==
    /\ args \in AlignArgs
    /\ ret = <<>>
    /\ done = FALSE
    /\ provider \in Providers
    /\ files = [configured |-> None, fallback |-> None]
    /\ trait_embs \in {None, Some(BuildTraitEmbs)}
    /\ sbert_model = IF trait_embs = None THEN None ELSE Some(MODEL_NAME)
    /\ career_list = None
    /\ career_texts = None
    /\ career_embeddings = None
    /\ encoded = None
    /\ last_call = None
    /\ ref_call = None
    /\ corpus_reads = 0
    /\ corpus_encodes = 0
    /\ trait_encodes = IF trait_embs = None THEN 0 ELSE Len(TRAIT_KEYWORDS)
    /\ app_phase = "down"
    /\ stored = <<>>
    /\ response = None
    /\ pc = <<>>
    /\ loc = <<>>
    /\ trait_dicts = <<>>
    /\ trait_owner = None

\* The embedding recommend() passes for the career: career_embeddings[i]
AlignCareerEmb == IF args.with_emb THEN Some(Encode(args.career[2][2])) ELSE None

TraitCall ==
    /\ ~done
    /\ args.fn = "trait"
    /\ LET cached == IF args.trait_scores = <<>> THEN trait_embs
                     ELSE GetTraitEmbeddings(trait_embs)
       IN  /\ trait_embs' = cached
           /\ sbert_model' = IF cached = None THEN sbert_model ELSE Some(MODEL_NAME)
           /\ trait_encodes' = trait_encodes
                                  + (IF trait_embs = None /\ cached # None
                                     THEN Len(cached.val) ELSE 0)
           /\ ret' = TraitAlignmentScore(args.trait_scores, args.career, AlignCareerEmb,
                                         IF cached = None THEN <<>> ELSE cached.val)
    /\ done' = TRUE
    /\ UNCHANGED <<args, provider, files, career_list, career_texts, career_embeddings,
                   encoded, last_call, ref_call, corpus_reads, corpus_encodes, appvars, racevars>>

MarksCall ==
    /\ ~done
    /\ args.fn = "marks"
    /\ ret' = [score |-> MarksAlignmentScore(args.marks, args.career),
               subj_scores |-> SubjScores(args.marks)]
    /\ done' = TRUE
    /\ UNCHANGED <<args, procvars>>

SpecAlign == AlignInit /\ [][TraitCall \/ MarksCall]_vars

FixedTraits == { TRAIT_KEYWORDS[i][1] : i \in 1..Len(TRAIT_KEYWORDS) }

\* No trait of the profile has a positive weight: each is outside the fixed
\* set, or numeric and at most 0.
NoPositiveTrait(trait_scores) ==
    \A i \in 1..Len(trait_scores) :
        \/ trait_scores[i][1] \notin FixedTraits
        \/ trait_scores[i][2].num /\ RLeq(trait_scores[i][2].v, Zero)

\* No subject score of the profile, at any level, is numeric and positive.
NoPositiveMark(marks) ==
    \A l \in 1..Len(marks) : \A i \in 1..Len(marks[l][2]) :
        ~marks[l][2][i][2].num \/ RLeq(marks[l][2][i][2].v, Zero)

\* C9: total alignment weight zero gives alignment exactly 0: trait_alignment
\* for every profile whose traits all have zero, negative or unrecognized
\* weight (the empty profile included), marks_alignment for every profile with
\* no numeric subject score or only zero or negative ones.
C9_ZeroWeightZeroAlignment ==
    /\ (done /\ args.fn = "trait" /\ NoPositiveTrait(args.trait_scores))
           => ret = Returns(Zero)
    /\ (done /\ args.fn = "marks" /\ NoPositiveMark(args.marks))
           => ret.score = Zero

\* C9 witness: a non-empty profile with a recognized trait of negative value
\* was scored against a career that has an embedding.
C9_Witness ==
    /\ done
    /\ args.fn = "trait"
    /\ args.with_emb
    /\ NoPositiveTrait(args.trait_scores)
    /\ \E i \in 1..Len(args.trait_scores) :
           /\ args.trait_scores[i][1] \in FixedTraits
           /\ RLess(args.trait_scores[i][2].v, Zero)
    /\ ret = Returns(Zero)

\* The items of the profile that count: a trait of the fixed set with a numeric
\* value above 0.
Counted(trait_scores) ==
    { i \in 1..Len(trait_scores) :
        /\ trait_scores[i][1] \in FixedTraits
        /\ trait_scores[i][2].num
        /\ RLess(Zero, trait_scores[i][2].v) }

\* Every trait of the fixed set in the profile has a numeric value.
FixedTraitsNumeric(trait_scores) ==
    \A i \in 1..Len(trait_scores) :
        trait_scores[i][1] \in FixedTraits => trait_scores[i][2].num

RECURSIVE RatSum(_, _)
RatSum(S, f) ==
    IF S = {} THEN Zero
    ELSE LET i == CHOOSE x \in S : TRUE IN RAdd(f[i], RatSum(S \ {i}, f))

\* The weighted average of max(keyword_fraction, embedding_relevance) over the
\* counted items, each weighted by its value / 10 clamped to [0, 1]; 0 when
\* nothing counts.
WeightedAverage(trait_scores, career, career_emb, embs) ==
    LET S      == Counted(trait_scores)
        text   == Lower(Strip(CareerWords(career)))
        weight == [i \in S |-> Clamp01(RDiv(trait_scores[i][2].v, Ten))]
        part   == [i \in S |-> RMul(weight[i],
                                    RMax(KeywordFraction(trait_scores[i][1], text),
                                         EmbSim(trait_scores[i][1], career_emb, embs)))]
    IN  IF S = {} THEN Zero ELSE RDiv(RatSum(S, part), RatSum(S, weight))

\* C11: for every numeric trait profile, values outside [0, 10] and keys outside
\* the fixed set included, trait_alignment is in [0, 1] and is the weighted
\* average of max(keyword_fraction, embedding_relevance) over the profile's
\* fixed-set traits of positive weight, the weight being value / 10 clamped to
\* [0, 1]; other keys and zero-intensity traits do not change it.
C11_WeightedAverage ==
    (done /\ args.fn = "trait" /\ FixedTraitsNumeric(args.trait_scores)) =>
        /\ ~ret.raised
        /\ RLeq(Zero, ret.val) /\ RLeq(ret.val, One)
        /\ ret.val = WeightedAverage(args.trait_scores, args.career, AlignCareerEmb,
                                     IF trait_embs = None THEN <<>> ELSE trait_embs.val)

\* C11 witness: a profile with a key outside the fixed set and two traits that
\* count was scored against a career with an embedding, and the average is
\* strictly between 0 and 1.
C11_Witness ==
    /\ done
    /\ args.fn = "trait"
    /\ args.with_emb
    /\ FixedTraitsNumeric(args.trait_scores)
    /\ Cardinality(Counted(args.trait_scores)) >= 2
    /\ \E i \in 1..Len(args.trait_scores) : args.trait_scores[i][1] \notin FixedTraits
    /\ ~ret.raised
    /\ RLess(Zero, ret.val) /\ RLess(ret.val, One)

\* C11 witness of the clamp: a trait valued above 10 counted with weight 1.
C11_WitnessAbove ==
    /\ done
    /\ args.fn = "trait"
    /\ ~ret.raised
    /\ \E i \in Counted(args.trait_scores) : RLess(Ten, args.trait_scores[i][2].v)
    /\ Cardinality(Counted(args.trait_scores)) >= 2

\* The numeric values the profile gives for subject key k (lower case), over
\* the subject maps of the two levels.
GivenValues(marks, k) ==
    UNION { { lvl[i][2].v : i \in { j \in 1..Len(lvl) :
                                      Lower(lvl[j][1]) = k /\ lvl[j][2].num } } :
            lvl \in { LevelDict(marks, "twelfth"), LevelDict(marks, "tenth") } }

GivenKeys(marks) ==
    UNION { { Lower(lvl[i][1]) : i \in 1..Len(lvl) } :
            lvl \in { LevelDict(marks, "twelfth"), LevelDict(marks, "tenth") } }

RatMax(S) == CHOOSE m \in S : \A x \in S : RLeq(x, m)

\* C10 as stated: the score kept for a subject key is the maximum of the
\* numeric values given for it at any level.
C10_MaxOfGiven ==
    (done /\ args.fn = "marks") =>
        \A k \in GivenKeys(args.marks) :
            GivenValues(args.marks, k) # {} =>
                /\ HasKey(ret.subj_scores, k)
                /\ Get(ret.subj_scores, k, Zero) = RatMax(GivenValues(args.marks, k))

\* C10 as amended: the score kept for a subject key (compared in lower case) is
\* the maximum of 0.0 and the numeric values given for it at any level, whatever
\* the order of the levels; a key with no numeric value is not kept.
C10_MaxOfGivenAndZero ==
    (done /\ args.fn = "marks") =>
        /\ \A k \in GivenKeys(args.marks) :
               IF GivenValues(args.marks, k) = {} THEN ~HasKey(ret.subj_scores, k)
               ELSE /\ HasKey(ret.subj_scores, k)
                    /\ Get(ret.subj_scores, k, Zero)
                           = RatMax(GivenValues(args.marks, k) \cup {Zero})
        /\ \A i \in 1..Len(ret.subj_scores) :
               ret.subj_scores[i][1] \in GivenKeys(args.marks)

\* C10 witness: tenth math 90 and twelfth math 60 were flattened to 90.
C10_Witness ==
    /\ done
    /\ args.fn = "marks"
    /\ Get(Get(args.marks, "tenth", <<>>), "math", Num(0)) = Num(90)
    /\ Get(Get(args.marks, "twelfth", <<>>), "math", Num(0)) = Num(60)
    /\ Get(ret.subj_scores, "math", Zero) = Frac(90, 1)

-----------------------------------------------------------------------------
(* Spec: a process that serves recommend() calls one after another.        *)

CorpusListed == Listed(<<
    JDict(Career("c1", "Data Analyst", "analysis of data", <<"math", "coding">>, <<"degree">>)),
    JStr("Artist"),
    JDict(<< <<"title", "Nurse">>, <<"description", "community care">>,
             <<"skills", <<"biology">>>>, <<"career_path", <<"people", "">>>> >>) >>)

CorpusWrapped == Wrapped(<<
    JDict(<< <<"career_id", "dev">>, <<"title", " Developer ">>,
             <<"description", "Software design">> >>),
    JDict(<< <<"career_id", "dev2">>, <<"title", "Developer">>,
             <<"description", "software design">> >>),
    JDict(<< <<"career_id", "tutor">>, <<"title", "Math tutor">>,
             <<"skills_required", <<"algebra", "people">>>> >>),
    JDict(<< <<"career_id", "clerk">> >>) >>)

CorpusKeyed == Keyed(<<
    <<"chef", JStr("Chef")>>,
    <<"stat", JDict(<< <<"description", "statistics and math">>, <<"path", <<"MATH degree">>>> >>)>>,
    <<"lab", JDict(<< <<"title", "Lab technician">>, <<"career_id", "lab-7">> >>)>> >>)

FileSystems == {
    [configured |-> Some(CorpusListed),  fallback |-> None],
    [configured |-> Some(CorpusWrapped), fallback |-> Some(CorpusListed)],
    [configured |-> None,                fallback |-> Some(CorpusKeyed)],
    [configured |-> None,                fallback |-> None] }

Request(profile_text, trait_scores, marks, top_k) ==
    [profile_text |-> profile_text, trait_scores |-> trait_scores,
     marks |-> marks, top_k |-> top_k]

Requests == {
    Request("", <<>>, <<>>, 6),
    Request("", <<>>, <<>>, 2),
    Request("likes data", << <<"Technical", Num(10)>>, <<"Creative", Num(4)>> >>,
            << <<"tenth", << <<"math", Num(90)>> >> >>,
               <<"twelfth", << <<"math", Num(60)>>, <<"biology", Num(75)>> >> >> >>, 3),
    Request("likes data", << <<"Technical", Num(10)>>, <<"Creative", Num(4)>> >>,
            << <<"tenth", << <<"math", Num(90)>> >> >>,
               <<"twelfth", << <<"math", Num(60)>>, <<"biology", Num(75)>> >> >> >>, 1),
    Request("people person", << <<"Social", Num(8)>> >>, <<>>, 4),
    Request("art", << <<"Creative", NotNum("high")>> >>, <<>>, 2) }

Init ==
    /\ args = <<>>
    /\ ret = <<>>
    /\ done = FALSE
    /\ provider \in Providers
    /\ files \in FileSystems
    /\ sbert_model = None
    /\ career_list = None
    /\ career_texts = None
    /\ career_embeddings = None
    /\ trait_embs = None
    /\ encoded = None
    /\ last_call = None
    /\ ref_call = None
    /\ corpus_reads = 0
    /\ corpus_encodes = 0
    /\ trait_encodes = 0
    /\ app_phase = "down"
    /\ stored = <<>>
    /\ response = None
    /\ pc = <<>>
    /\ loc = <<>>
    /\ trait_dicts = <<>>
    /\ trait_owner = None

RecommendCall ==
    \E req \in Requests :
        /\ Recommend(req)
        /\ UNCHANGED <<args, ret, done, provider, files, ref_call, appvars, racevars>>

\* The observer keeps the latest call to compare a later one with it.
Remember ==
    /\ last_call # None
    /\ ref_call' = last_call
    /\ UNCHANGED <<args, ret, done, provider, files, cachevars, trait_embs, encoded,
                   last_call, countvars, appvars, racevars>>

Next == RecommendCall \/ Remember

Spec == Init /\ [][Next]_vars

\* The rows of the latest call, when it returned
Returned == last_call # None /\ ~last_call.val.out.raised
Rows == last_call.val.out.val

\* Position of the career with this id in the loaded corpus (ids are distinct)
CorpusIndex(career_id) ==
    CHOOSE i \in 1..Len(career_list.val) : Get(career_list.val[i], "career_id", "") = career_id

\* C3: two rows of one result with the same final_score are in corpus order.
C3_TieStable ==
    Returned =>
        \A i, j \in 1..Len(Rows) :
            (i < j /\ Rows[i].final_score = Rows[j].final_score)
                => CorpusIndex(Rows[i].career_id) < CorpusIndex(Rows[j].career_id)

\* C3 witness: a result in which two careers tie and ones of other scores are
\* ranked too.
C3_Witness ==
    /\ Returned
    /\ \E i, j, k \in 1..Len(Rows) :
           /\ i < j
           /\ Rows[i].final_score = Rows[j].final_score
           /\ Rows[k].final_score # Rows[i].final_score

\* The final_score of every career of the corpus for the latest request
AllScores ==
    LET recs == ScoredRecs(last_call.val.req,
                           [career_list |-> career_list.val,
                            career_texts |-> career_texts.val,
                            career_embeddings |-> career_embeddings.val])
    IN  [i \in 1..Len(recs) |-> [career_id |-> recs[i].val.career_id,
                                 final_score |-> recs[i].val.final_score]]

\* C4: for top_k >= 1 and N careers the result has min(top_k, N) rows in
\* non-increasing final_score order, and no career left out scores strictly
\* higher than a returned one.
C4_TopK ==
    Returned =>
        /\ Len(Rows) = Min2(last_call.val.req.top_k, Len(career_list.val))
        /\ \A i \in 1..(Len(Rows) - 1) : Rows[i].final_score >= Rows[i + 1].final_score
        /\ \A e \in 1..Len(AllScores) :
               (\A i \in 1..Len(Rows) : Rows[i].career_id # AllScores[e].career_id)
                   => \A i \in 1..Len(Rows) : AllScores[e].final_score <= Rows[i].final_score

\* C4 witness: top_k is below the corpus size, the result has top_k rows, and a
\* career that was left out scores strictly lower than the last row.
C4_Witness ==
    /\ Returned
    /\ last_call.val.req.top_k < Len(career_list.val)
    /\ Len(Rows) = last_call.val.req.top_k
    /\ \E e \in 1..Len(AllScores) :
           /\ \A i \in 1..Len(Rows) : Rows[i].career_id # AllScores[e].career_id
           /\ AllScores[e].final_score < Rows[Len(Rows)].final_score

\* C6: two calls with the same arguments give the same outcome, whatever ran
\* before or between them.
C6_Deterministic ==
    (ref_call # None /\ last_call # None /\ ref_call.val.req = last_call.val.req)
        => ref_call.val.out = last_call.val.out

\* C6 witness: the kept call found the cache empty and passed no traits, the
\* latest call has the same arguments and returned rows, and the trait index
\* has been filled since, so a call with traits ran between the two.
C6_Witness ==
    /\ ref_call # None
    /\ Returned
    /\ ref_call.val.req = last_call.val.req
    /\ ref_call.val.cold
    /\ ~last_call.val.cold
    /\ last_call.val.req.trait_scores = <<>>
    /\ trait_embs # None
    /\ Len(Rows) >= 2

\* C7: the provider is never asked to encode an empty profile text.
C7_NeverEncodesEmpty == encoded # Some("")

\* The corpus cache: the entity list, the text list and the embedding matrix
corpus_cache == <<career_list, career_texts, career_embeddings>>

\* One step of a series of recommend() calls, as C12 (amended) describes it
PopulatesOnce ==
    /\ corpus_reads' <= 1
    /\ corpus_encodes' <= 1
    /\ trait_encodes' \in {0, Len(TRAIT_KEYWORDS)}
    /\ (career_list' # None) <=> (corpus_encodes' = 1)
    /\ (career_list = None /\ career_list' # None)
           => /\ corpus_reads' = 1
              /\ last_call'.val.cold
              /\ ref_call # None => ref_call.val.out.raised
    /\ career_list # None
           => UNCHANGED <<corpus_cache, corpus_reads, corpus_encodes>>
    /\ trait_embs # None => UNCHANGED <<trait_embs, trait_encodes>>

C14_ValuesNeverRaise ==
    (last_call # None /\ career_list # None) => ~last_call.val.out.raised

-----------------------------------------------------------------------------
(* SpecLoad: the uncached path of _load_careers_and_embeddings on bounded  *)
(* raw corpora of the three shapes.                                        *)

MaxEntries == 2

\* What one raw entry can be: records with and without id and title, a record
\* with an empty id, an empty record, a plain string, a number.
RawEntries == {
    JDict(Career("c1", "Data Analyst", "analysis of data", <<"math">>, <<"degree">>)),
    JDict(<< <<"title", "Nurse">>, <<"skills", <<"biology">>>> >>),
    JDict(<< <<"career_id", "">>, <<"title", "Clerk">> >>),
    JDict(<<>>),
    JStr("Artist"),
    JNum(42) }

RawKeys == <<"chef", "stat">>

RawLists == UNION { [1..n -> RawEntries] : n \in 0..MaxEntries }

LoadInit ==
    /\ \/ args \in { Wrapped(l) : l \in RawLists }
       \/ args \in { Listed(l) : l \in RawLists }
       \/ args \in { Keyed([i \in 1..Len(l) |-> <<RawKeys[i], l[i]>>]) :
                        l \in { x \in RawLists : Len(x) <= Len(RawKeys) } }
    /\ ret = <<>>
    /\ done = FALSE
    /\ provider = [flat |-> TRUE, k1 |-> 0, k2 |-> 0]
    /\ files = [configured |-> Some(args), fallback |-> None]
    /\ sbert_model = None
    /\ career_list = None
    /\ career_texts = None
    /\ career_embeddings = None
    /\ trait_embs = None
    /\ encoded = None
    /\ last_call = None
    /\ ref_call = None
    /\ corpus_reads = 0
    /\ corpus_encodes = 0
    /\ trait_encodes = 0
    /\ app_phase = "down"
    /\ stored = <<>>
    /\ response = None
    /\ pc = <<>>
    /\ loc = <<>>
    /\ trait_dicts = <<>>
    /\ trait_owner = None

\* One call of _load_careers_and_embeddings() on an empty cache
LoadCall ==
    /\ ~done
    /\ LET load == LoadCareersAndEmbeddings
       IN  /\ ret' = load
           /\ corpus_reads' = corpus_reads + 1
           /\ IF load.raised
              THEN UNCHANGED <<cachevars, corpus_encodes>>
              ELSE /\ career_list' = Some(load.val.career_list)
                   /\ career_texts' = Some(load.val.career_texts)
                   /\ career_embeddings' = Some(load.val.career_embeddings)
                   /\ sbert_model' = Some(MODEL_NAME)
                   /\ corpus_encodes' = corpus_encodes + 1
    /\ done' = TRUE
    /\ UNCHANGED <<args, provider, files, trait_embs, encoded, last_call, ref_call,
                   trait_encodes, appvars, racevars>>

SpecLoad == LoadInit /\ [][LoadCall]_vars

\* The id and the title a raw entry gives, if any
RawGiven(corpus, i, key) ==
    LET e == corpus.items[i]
    IN  IF corpus.shape = "keyed"
        THEN IF e[2].t = "dict" /\ HasKey(e[2].d, key) THEN Some(e[2].d[CHOOSE j \in 1..Len(e[2].d) : e[2].d[j][1] = key][2])
             ELSE IF key = "career_id" THEN Some(e[1])
             ELSE IF e[2].t = "dict" THEN Some(e[1])
             ELSE Some(IF e[2].t = "str" THEN e[2].s ELSE ToString(e[2].n))
        ELSE IF e.t = "dict" /\ HasKey(e.d, key) THEN Some(Get(e.d, key, ""))
             ELSE IF e.t = "str" /\ key = "title" THEN Some(e.s)
             ELSE None

\* C16: for raw input of any of the three shapes, and for list elements that
\* are not records, the loader rejects nothing and yields one entity per raw
\* entry in input order, each with a non-empty id, the title the entry gives or
\* else its id, and a description, skills and a path.
C16_EveryEntryCoerced ==
    done =>
        /\ ~ret.raised
        /\ Len(ret.val.career_list) = Len(args.items)
        /\ \A i \in 1..Len(args.items) :
               LET c == ret.val.career_list[i]
               IN  /\ HasKey(c, "career_id") /\ Get(c, "career_id", "") # ""
                   /\ RawGiven(args, i, "career_id") # None
                          => Get(c, "career_id", "") = RawGiven(args, i, "career_id").val
                   /\ Get(c, "title", "") = IF RawGiven(args, i, "title") # None
                                            THEN RawGiven(args, i, "title").val
                                            ELSE Get(c, "career_id", "")
                   /\ HasKey(c, "description")
                   /\ HasKey(c, "skills_required")
                   /\ HasKey(c, "path")

-----------------------------------------------------------------------------
(* app.py: the helpers the recommendation handler calls before the ranking *)

\* A float of the request (f"{v}" prints it with a decimal point); Num is an int
Flt(n, d) == [num |-> TRUE, v |-> Frac(n, d), float |-> TRUE]
IsFloat(x) == x.num /\ x \in [num : {TRUE}, v : {x.v}, float : {TRUE}]

TRAITS == <<"Analytical", "Logical", "Technical", "Practical", "Social", "Leadership",
            "Creative">>

\* repr() of a float with at most two decimals
FmtFloat(r) ==
    LET h  == (r[1] * 100) \div r[2]
        ip == Abs(h) \div 100
        fp == Abs(h) % 100
    IN  (IF h < 0 THEN "-" ELSE "") \o ToString(ip) \o "."
            \o (IF fp % 10 = 0 THEN ToString(fp \div 10)
                ELSE (IF fp < 10 THEN "0" ELSE "") \o ToString(fp))

\* f"{v}" of a request value
FmtValue(x) ==
    IF ~x.num THEN x.v ELSE IF IsFloat(x) THEN FmtFloat(x.v) ELSE ToString(x.v[1])

\* round(x, 2): an int stays an int.  A float exactly half way between two
\* hundredths falls as its binary value falls; the request values used here
\* give no such tie.
Round2(x) == IF IsFloat(x) THEN Flt(RoundHalfEven(x.v[1] * 100, x.v[2]), 100) ELSE x

\* compute_cognitive_from_traits: round() of a str raises TypeError
ComputeCognitiveFromTraits(traits) ==
    LET logical    == Get(traits, "Logical", Flt(0, 1))
        analytical == Get(traits, "Analytical", Flt(0, 1))
        creative   == Get(traits, "Creative", Flt(0, 1))
        index      == RAdd(RAdd(RMul(Frac(1, 2), analytical.v), RMul(Frac(3, 10), logical.v)),
                           RMul(Frac(1, 5), creative.v))
    IN  IF ~logical.num \/ ~analytical.num \/ ~creative.num THEN Raises("TypeError")
        ELSE Returns(<< <<"LogicalReasoning", Round2(logical)>>,
                        <<"AnalyticalAbility", Round2(analytical)>>,
                        <<"CreativeThinking", Round2(creative)>>,
                        <<"CognitiveIndex", Round2(Flt(index[1], index[2]))>> >>)

\* The characters request strings are made of, in code point order, for
\* str < str
Ascii == " -./0123456789" \o UpperChars \o "_" \o LowerChars
CharOrd(c) == CHOOSE i \in 1..Len(Ascii) : SubSeq(Ascii, i, i) = c

RECURSIVE StrLess(_, _)
StrLess(a, b) ==
    IF b = "" THEN FALSE
    ELSE IF a = "" THEN TRUE
    ELSE LET ca == SubSeq(a, 1, 1)
             cb == SubSeq(b, 1, 1)
         IN  IF ca = cb THEN StrLess(SubSeq(a, 2, Len(a)), SubSeq(b, 2, Len(b)))
             ELSE CharOrd(ca) < CharOrd(cb)

\* x < y on two values of one kind
ValueLess(x, y) == IF x.num THEN RLess(x.v, y.v) ELSE StrLess(x.v, y.v)

\* sorted(items, key=lambda x: x[1], reverse=True): stable, and TypeError when
\* a str is compared with a number
InsertItemDesc(sorted, item) ==
    SelectSeq(sorted, LAMBDA x : ~ValueLess(x[2], item[2])) \o <<item>>
        \o SelectSeq(sorted, LAMBDA x : ValueLess(x[2], item[2]))

RECURSIVE SortItemsFrom(_, _, _)
SortItemsFrom(items, i, sorted) ==
    IF i > Len(items) THEN sorted
    ELSE SortItemsFrom(items, i + 1, InsertItemDesc(sorted, items[i]))

SortedItemsDesc(items) ==
    IF \E i, j \in 1..Len(items) : items[i][2].num # items[j][2].num
    THEN Raises("TypeError")
    ELSE Returns(SortItemsFrom(items, 1, <<>>))

\* The first n elements of a list: xs[:n]
Take(xs, n) == SubSeq(xs, 1, Min2(n, Len(xs)))

FmtItems(items) == Join(", ", [i \in 1..Len(items) |-> items[i][1] \o ":" \o FmtValue(items[i][2])])

\* The "<level>_strengths: ..." parts of the profile text
StrengthParts(marks) ==
    LET part(level) ==
            LET subs == Get(marks, level, <<>>)
                nums == SelectSeq(subs, LAMBDA kv : kv[2].num)
            IN  IF subs = <<>> THEN <<>>
                ELSE << level \o "_strengths: " \o FmtItems(Take(SortItemsFrom(nums, 1, <<>>), 3)) >>
    IN  part("tenth") \o part("twelfth")

\* build_profile_text
BuildProfileText(trait_scores, cognitive, marks) ==
    LET sorted_traits == SortedItemsDesc(trait_scores)
    IN  IF sorted_traits.raised THEN sorted_traits
        ELSE Returns(Join(" | ",
                 << "TopTraits: " \o FmtItems(Take(sorted_traits.val, 4)),
                    Join(" ", [i \in 1..Len(cognitive) |->
                                  cognitive[i][1] \o ":" \o FmtValue(cognitive[i][2])]) >>
                 \o StrengthParts(marks)))

\* The keys of payload among the given ones, with their values
Picked(payload, keys) ==
    LET present == SelectSeq(keys, LAMBDA k : HasKey(payload, k))
    IN  [i \in 1..Len(present) |-> <<present[i], Get(payload, present[i], None)>>]

\* One level of normalize_marks_payload: its own key, else its short key, else
\* the flat subject keys of that level
NormalizedLevel(payload, level, short, flat_keys) ==
    IF HasKey(payload, level) THEN << <<level, Get(payload, level, <<>>)>> >>
    ELSE IF HasKey(payload, short) THEN << <<level, Get(payload, short, <<>>)>> >>
    ELSE IF Picked(payload, flat_keys) # <<>> THEN << <<level, Picked(payload, flat_keys)>> >>
    ELSE <<>>

\* normalize_marks_payload, for a payload with no nested "marks" object
NormalizeMarksPayload(payload) ==
    IF payload = <<>> THEN <<>>
    ELSE NormalizedLevel(payload, "tenth", "10th", <<"math", "science", "social", "english">>)
         \o NormalizedLevel(payload, "twelfth", "12th",
                            <<"math", "physics", "chemistry", "biology">>)

\* mean_of_dict(...) or 0: the mean of the numeric values of a level, else 0
LevelMean(marks, level) ==
    LET nums == SelectSeq(Get(marks, level, <<>>), LAMBDA kv : kv[2].num)
    IN  IF nums = <<>> THEN Zero
        ELSE RDiv(RatSum(1..Len(nums), [i \in 1..Len(nums) |-> nums[i][2].v]),
                  Frac(Len(nums), 1))

Classify(avg) ==
    IF RLeq(Frac(85, 1), avg) THEN "Excellent"
    ELSE IF RLeq(Frac(70, 1), avg) THEN "Good"
    ELSE IF RLeq(Frac(50, 1), avg) THEN "Average"
    ELSE IF RLess(Zero, avg) THEN "Needs Improvement"
    ELSE "No Data"

\* compute_academic_strengths
ComputeAcademicStrengths(marks) ==
    << <<"10th", Classify(LevelMean(marks, "tenth"))>>,
       <<"12th", Classify(LevelMean(marks, "twelfth"))>> >>

-----------------------------------------------------------------------------
(* SpecApp: the web process.  It loads the corpus when app.py is imported, *)
(* then serves /api/generate_recommendations.                              *)

\* The careers list app.py builds at import from the parsed file: a keyed
\* corpus keeps only the entries that are records
AppNormalize(careers_raw) ==
    IF careers_raw.shape \in {"wrapped", "list"} THEN careers_raw.items
    ELSE LET kept == SelectSeq(careers_raw.items, LAMBDA kv : kv[2].t = "dict")
         IN  [i \in 1..Len(kept) |-> kept[i][2]]

\* The module-level load of app.py: open() of the one hard-coded path (the
\* default of CAREERS_JSON), then c.setdefault on every entry.  The number of
\* careers ready, or the exception that ends the import.
AppStartupLoad ==
    IF files.configured = None THEN Raises("FileNotFoundError")
    ELSE LET list == AppNormalize(files.configured.val)
         IN  IF \E i \in 1..Len(list) : list[i].t # "dict"
             THEN Raises("AttributeError")
             ELSE Returns(Len(list))

\* Import of app.py
AppStartup ==
    /\ app_phase = "starting"
    /\ app_phase' = IF AppStartupLoad.raised THEN "crashed" ELSE "serving"
    /\ corpus_reads' = corpus_reads + (IF files.configured = None THEN 0 ELSE 1)
    /\ corpus_encodes' = corpus_encodes + (IF AppStartupLoad.raised THEN 0 ELSE 1)
    /\ UNCHANGED <<args, ret, done, provider, files, cachevars, trait_embs, encoded,
                   last_call, ref_call, trait_encodes, stored, response, racevars>>

\* The responses: jsonify(...) with its status, or the fault the web layer
\* makes of an exception no handler catches
JsonFailure(status, message) ==
    [kind |-> "json", status |-> status, success |-> FALSE, message |-> message]
JsonSuccess(recommendations, profile_text, cognitive, academic_strengths) ==
    [kind |-> "json", status |-> 200, success |-> TRUE,
     recommendations |-> recommendations, profile_text |-> profile_text,
     cognitive |-> cognitive, academic_strengths |-> academic_strengths]
Fault(error, during) ==
    [kind |-> "fault", status |-> 500, success |-> FALSE, error |-> error,
     during |-> during]

\* The JSON body of a request, as far as the handler reads it: the traits of
\* psych_scores and the subject_scores object, each given or not
Payload(traits, subject_scores) == [traits |-> traits, subject_scores |-> subject_scores]

Payloads == {
    Payload(None, None),
    Payload(Some(<< <<"Technical", Num(9)>>, <<"Social", Num(2)>> >>),
            Some(<< <<"tenth", << <<"math", Num(90)>> >> >> >>)),
    Payload(Some(<< <<"Technical", NotNum("high")>> >>), None),
    Payload(Some(<< <<"Logical", NotNum("high")>> >>), None),
    Payload(Some(<< <<"Creative", Flt(15, 2)>>, <<"Practical", NotNum("low")>> >>), None),
    Payload(None, Some(<< <<"math", Num(80)>>, <<"biology", NotNum("AB")>> >>)) }

\* trait_scores of the handler, for a user with no stored psychometric data
HandlerTraits(payload) ==
    IF payload.traits # None /\ payload.traits.val # <<>> THEN payload.traits.val
    ELSE [i \in 1..Len(TRAITS) |-> <<TRAITS[i], Flt(5, 1)>>]

\* marks of the handler, for a user with no stored marks
HandlerMarks(payload) ==
    IF payload.subject_scores # None THEN NormalizeMarksPayload(payload.subject_scores.val)
    ELSE <<>>

\* Mutant: the handler saves what it has when the ranking fails.
StoredAfterAlways(out) == IF out.raised THEN <<>> ELSE out.val

\* users_col.update_one(..., {"$set": {"last_recommendations": recommendations}})
\* is reached only when hybrid_recommend returned
StoredAfter(out) == IF out.raised THEN stored ELSE out.val

\* api_generate_recommendations
ApiGenerateRecommendations(logged_in, payload) ==
    LET trait_scores == HandlerTraits(payload)
        marks        == HandlerMarks(payload)
        cognitive    == ComputeCognitiveFromTraits(trait_scores)
        profile_text == BuildProfileText(trait_scores, cognitive.val, marks)
    IN  /\ app_phase = "serving"
        /\ IF ~logged_in
           THEN /\ response' = JsonFailure(401, "Not logged in")
                /\ UNCHANGED <<stored, cachevars, trait_embs, encoded, last_call, countvars>>
           ELSE IF cognitive.raised \/ profile_text.raised
           THEN /\ response' = Fault("TypeError", "prepare")
                /\ UNCHANGED <<stored, cachevars, trait_embs, encoded, last_call, countvars>>
           ELSE /\ Recommend(Request(profile_text.val, trait_scores, marks, 6))
                /\ stored' = StoredAfter(last_call'.val.out)
                /\ response' = IF last_call'.val.out.raised
                               THEN Fault(last_call'.val.out.val, "ranking")
                               ELSE JsonSuccess(last_call'.val.out.val, profile_text.val,
                                                cognitive.val,
                                                ComputeAcademicStrengths(marks))
        /\ UNCHANGED <<args, ret, done, provider, files, ref_call, app_phase, racevars>>

AppInit ==
    /\ args = <<>>
    /\ ret = <<>>
    /\ done = FALSE
    /\ provider \in Providers
    /\ \/ files \in FileSystems
       \/ files = [configured |-> Some(CorpusKeyed), fallback |-> None]
    /\ sbert_model = None
    /\ career_list = None
    /\ career_texts = None
    /\ career_embeddings = None
    /\ trait_embs = None
    /\ encoded = None
    /\ last_call = None
    /\ ref_call = None
    /\ corpus_reads = 0
    /\ corpus_encodes = 0
    /\ trait_encodes = 0
    /\ app_phase = "starting"
    /\ stored = <<>>
    /\ response = None
    /\ pc = <<>>
    /\ loc = <<>>
    /\ trait_dicts = <<>>
    /\ trait_owner = None

Serve == \E logged_in \in BOOLEAN, payload \in Payloads :
             ApiGenerateRecommendations(logged_in, payload)

SpecApp == AppInit /\ [][AppStartup \/ Serve]_vars

\* C13: with the corpus file absent at both paths the failure is a startup
\* failure and never the error of a recommendation request; with the file at
\* the configured or at the fallback path the process starts and serves.
C13_StartupFailureOnly ==
    /\ (files.configured = None /\ files.fallback = None)
           => /\ app_phase # "serving"
              /\ response = None
    /\ (files.configured # None \/ files.fallback # None)
           => app_phase # "crashed"

\* C15: when the ranking raises while a recommendation request is handled, the
\* response is a structured failure (a success = false record), not a fault of
\* the web layer.
C15_StructuredFailure ==
    (response # None /\ last_call # None /\ last_call.val.out.raised)
        => (response.kind = "json" /\ ~response.success)

\* One step of the handler, as C17 describes it
AllOrNothing ==
    /\ (response' # response /\ response'.kind = "fault")
           => stored' = stored
    /\ stored' # stored
           => /\ response'.kind = "json" /\ response'.success
              /\ ~last_call'.val.out.raised
              /\ stored' = last_call'.val.out.val
              /\ response'.recommendations = stored'
              /\ Len(stored') = Min2(6, Len(career_list'.val))
    /\ (last_call' # last_call /\ last_call'.val.out.raised)
           => /\ stored' = stored
              /\ response'.kind = "fault"

\* C17: a ranking request is all-or-nothing: when recommend() fails no rows
\* reach the caller and the stored last_recommendations stay as they were; they
\* are replaced only by a complete ranking.
C17_AllOrNothing == [][AllOrNothing]_vars

\* C17 witness: rows of an earlier request are stored, and the latest request
\* ended in a fault of the ranking, which left them in place.
C17_Witness ==
    /\ response # None
    /\ response.kind = "fault"
    /\ response.during = "ranking"
    /\ last_call.val.out.raised
    /\ stored # <<>>

-----------------------------------------------------------------------------
(* Two threads of one process, each in recommend(), interleaved at the     *)
(* reads and writes of the module globals.  SpecRace starts them on an     *)
(* empty corpus cache with requests that carry no traits; SpecTraitRace    *)
(* starts them on a filled corpus cache and an empty trait index with      *)
(* requests that carry traits.  The steps of _get_trait_embeddings neither *)
(* read nor write the corpus globals, and the loader steps neither read    *)
(* nor write _trait_embs.                                                  *)

Threads == {1, 2}

RaceRequests == {
    Request("likes data", <<>>, << <<"tenth", << <<"math", Num(90)>> >> >> >>, 3),
    Request("people person", <<>>, <<>>, 2) }

\* The request of each thread in SpecTraitRace
TraitRaceRequests == <<
    Request("likes data", << <<"Technical", Num(10)>>, <<"Creative", Num(4)>> >>, <<>>, 3),
    Request("people person", << <<"Social", Num(8)>> >>, <<>>, 2) >>

\* A corpus of two entries
CorpusPair == Listed(<<
    JDict(Career("c1", "Data Analyst", "analysis of data", <<"math", "coding">>, <<"degree">>)),
    JStr("Artist") >>)

\* The locals of a thread that has not called recommend() yet
NoLocals(req) ==
    [req |-> req,
     after |-> "rec",              \* which call of the loader is running
     l_list |-> None, l_texts |-> None, l_embs |-> None,      \* the loader's locals
     g_list |-> None, g_texts |-> None, g_embs |-> None,      \* the tuple it returns
     career_list |-> None, career_texts |-> None, career_embeddings |-> None,
     cos_embeddings |-> None,      \* career_embeddings of _cosine_similarities
     sims_list |-> <<>>,
     i |-> 1,                      \* the career the loop is at
     k |-> 1,                      \* the trait _get_trait_embeddings is at
     t_ref |-> None,               \* the dict _get_trait_embeddings returned
     traits_out |-> <<>>,          \* trait_score of the careers done
     result |-> None]

\* What both race specifications start from, the corpus cache aside
RaceStart(corpus, locals) ==
    /\ args = <<>>
    /\ ret = <<>>
    /\ done = FALSE
    /\ provider = [flat |-> FALSE, k1 |-> 2, k2 |-> 5]
    /\ files = [configured |-> Some(corpus), fallback |-> None]
    /\ trait_embs = None
    /\ encoded = None
    /\ last_call = None
    /\ ref_call = None
    /\ trait_encodes = 0
    /\ app_phase = "down"
    /\ stored = <<>>
    /\ response = None
    /\ pc = [t \in Threads |-> "idle"]
    /\ loc \in locals
    /\ trait_dicts = [t \in Threads |-> <<>>]
    /\ trait_owner = None

RaceInit ==
    /\ RaceStart(CorpusListed, [Threads -> { NoLocals(r) : r \in RaceRequests }])
    /\ sbert_model = None
    /\ career_list = None
    /\ career_texts = None
    /\ career_embeddings = None
    /\ corpus_reads = 0
    /\ corpus_encodes = 0

\* A process that has served a request without traits before
TraitRaceInit ==
    /\ RaceStart(CorpusPair, { [t \in Threads |-> NoLocals(TraitRaceRequests[t])] })
    /\ sbert_model = Some(MODEL_NAME)
    /\ career_list = Some(LoadFresh.val.career_list)
    /\ career_texts = Some(LoadFresh.val.career_texts)
    /\ career_embeddings = Some(LoadFresh.val.career_embeddings)
    /\ corpus_reads = 1
    /\ corpus_encodes = 1

\* What a step leaves alone besides the globals it names
RaceFrame == UNCHANGED <<args, ret, done, provider, files, ref_call, appvars>>

Goto(t, label) == pc' = [pc EXCEPT ![t] = label]

\* recommend() is called: its first statement calls the loader
Call(t) ==
    /\ pc[t] = "idle"
    /\ Goto(t, "load_check")
    /\ loc' = [loc EXCEPT ![t].after = "rec"]
    /\ UNCHANGED <<cachevars, trait_embs, encoded, last_call, countvars, trait_dicts,
                   trait_owner>>
    /\ RaceFrame

\* "return cached if present".  The test reads _career_list and then
\* _career_embeddings; both only ever change from None to a value, so the two
\* reads give what one read of both gives at the time of the later read.
LoadCheck(t) ==
    /\ pc[t] = "load_check"
    /\ Goto(t, IF CacheReady THEN "ret_list" ELSE "load_read")
    /\ UNCHANGED <<loc, cachevars, trait_embs, encoded, last_call, countvars, trait_dicts,
                   trait_owner>>
    /\ RaceFrame

\* Open and parse the file, normalize, ensure fields, build the texts
LoadRead(t) ==
    /\ pc[t] = "load_read"
    /\ corpus_reads' = corpus_reads + (IF ChosenFile.raised THEN 0 ELSE 1)
    /\ IF LoadFresh.raised
       THEN /\ Goto(t, "done")
            /\ loc' = [loc EXCEPT ![t].result = Some(LoadFresh)]
       ELSE /\ Goto(t, "load_encode")
            /\ loc' = [loc EXCEPT ![t].l_list = Some(LoadFresh.val.career_list),
                                  ![t].l_texts = Some(LoadFresh.val.career_texts)]
    /\ UNCHANGED <<cachevars, trait_embs, encoded, last_call, corpus_encodes, trait_encodes,
                   trait_dicts, trait_owner>>
    /\ RaceFrame

\* model = _load_model(); embeddings = model.encode(texts, ...)
LoadEncode(t) ==
    /\ pc[t] = "load_encode"
    /\ sbert_model' = Some(MODEL_NAME)
    /\ loc' = [loc EXCEPT ![t].l_embs =
                   Some([i \in 1..Len(loc[t].l_texts.val) |-> Encode(loc[t].l_texts.val[i])])]
    /\ corpus_encodes' = corpus_encodes + 1
    /\ Goto(t, "pub_list")
    /\ UNCHANGED <<career_list, career_texts, career_embeddings, trait_embs, encoded,
                   last_call, corpus_reads, trait_encodes, trait_dicts, trait_owner>>
    /\ RaceFrame

\* _career_list = career_list
PubList(t) ==
    /\ pc[t] = "pub_list"
    /\ career_list' = loc[t].l_list
    /\ Goto(t, "pub_texts")
    /\ UNCHANGED <<loc, sbert_model, career_texts, career_embeddings, trait_embs, encoded,
                   last_call, countvars, trait_dicts, trait_owner>>
    /\ RaceFrame

\* _career_texts = texts
PubTexts(t) ==
    /\ pc[t] = "pub_texts"
    /\ career_texts' = loc[t].l_texts
    /\ Goto(t, "pub_embs")
    /\ UNCHANGED <<loc, sbert_model, career_list, career_embeddings, trait_embs, encoded,
                   last_call, countvars, trait_dicts, trait_owner>>
    /\ RaceFrame

\* _career_embeddings = embeddings
PubEmbs(t) ==
    /\ pc[t] = "pub_embs"
    /\ career_embeddings' = loc[t].l_embs
    /\ Goto(t, "ret_list")
    /\ UNCHANGED <<loc, sbert_model, career_list, career_texts, trait_embs, encoded,
                   last_call, countvars, trait_dicts, trait_owner>>
    /\ RaceFrame

\* return _career_list, _career_texts, _career_embeddings: three reads
RetList(t) ==
    /\ pc[t] = "ret_list"
    /\ loc' = [loc EXCEPT ![t].g_list = career_list]
    /\ Goto(t, "ret_texts")
    /\ UNCHANGED <<cachevars, trait_embs, encoded, last_call, countvars, trait_dicts,
                   trait_owner>>
    /\ RaceFrame

RetTexts(t) ==
    /\ pc[t] = "ret_texts"
    /\ loc' = [loc EXCEPT ![t].g_texts = career_texts]
    /\ Goto(t, "ret_embs")
    /\ UNCHANGED <<cachevars, trait_embs, encoded, last_call, countvars, trait_dicts,
                   trait_owner>>
    /\ RaceFrame

\* The third read, and the assignment of the tuple by the caller: recommend()
\* keeps all three and goes on to _cosine_similarities, which calls the loader
\* again and keeps the embeddings only.
RetEmbs(t) ==
    /\ pc[t] = "ret_embs"
    /\ IF loc[t].after = "rec"
       THEN /\ loc' = [loc EXCEPT ![t].g_embs = career_embeddings,
                                  ![t].career_list = loc[t].g_list,
                                  ![t].career_texts = loc[t].g_texts,
                                  ![t].career_embeddings = career_embeddings,
                                  ![t].after = "cos"]
            /\ Goto(t, "load_check")
       ELSE /\ loc' = [loc EXCEPT ![t].g_embs = career_embeddings,
                                  ![t].cos_embeddings = career_embeddings]
            /\ Goto(t, "cos_encode")
    /\ UNCHANGED <<cachevars, trait_embs, encoded, last_call, countvars, trait_dicts,
                   trait_owner>>
    /\ RaceFrame

\* _cosine_similarities after its loader call: encode the profile text and take
\* the similarities; back in recommend() the loop over careers starts
CosEncode(t) ==
    /\ pc[t] = "cos_encode"
    /\ sbert_model' = Some(MODEL_NAME)
    /\ encoded' = Some(loc[t].req.profile_text)
    /\ IF loc[t].cos_embeddings = None
       THEN /\ loc' = [loc EXCEPT ![t].result = Some(Raises("TypeError"))]
            /\ Goto(t, "done")
       ELSE /\ loc' = [loc EXCEPT ![t].sims_list =
                           CosineSimilarities(loc[t].req.profile_text,
                                              loc[t].cos_embeddings.val),
                                  ![t].i = 1]
            /\ Goto(t, IF loc[t].career_list.val = <<>> THEN "finish" ELSE "career")
    /\ UNCHANGED <<career_list, career_texts, career_embeddings, trait_embs, last_call,
                   countvars, trait_dicts, trait_owner>>
    /\ RaceFrame

\* The next career to score
NextCareer(t) == IF loc[t].i = Len(loc[t].career_list.val) THEN "finish" ELSE "career"

\* _trait_alignment_score for career i, up to the test of _get_trait_embeddings:
\* 0.0 at once without traits, else "if _trait_embs is not None: return it"
TraitCheck(t) ==
    /\ pc[t] = "career"
    /\ IF loc[t].req.trait_scores = <<>>
       THEN /\ loc' = [loc EXCEPT ![t].traits_out = Append(@, Returns(Zero)),
                                  ![t].i = @ + 1]
            /\ Goto(t, NextCareer(t))
       ELSE IF trait_embs # None
       THEN /\ loc' = [loc EXCEPT ![t].t_ref = trait_owner]
            /\ Goto(t, "score")
       ELSE /\ loc' = loc
            /\ Goto(t, "trait_new")
    /\ UNCHANGED <<cachevars, trait_embs, encoded, last_call, countvars, trait_dicts,
                   trait_owner>>
    /\ RaceFrame

\* model = _load_model(); _trait_embs = {}
TraitNew(t) ==
    /\ pc[t] = "trait_new"
    /\ sbert_model' = Some(MODEL_NAME)
    /\ trait_owner' = Some(t)
    /\ trait_dicts' = [trait_dicts EXCEPT ![t] = <<>>]
    /\ trait_embs' = Some(<<>>)
    /\ loc' = [loc EXCEPT ![t].k = 1]
    /\ Goto(t, "trait_fill")
    /\ UNCHANGED <<career_list, career_texts, career_embeddings, encoded, last_call,
                   countvars>>
    /\ RaceFrame

\* One pass of the loop: _trait_embs[trait] = model.encode(text, ...).  The
\* store goes to the dict the global names when the store runs.
TraitFill(t) ==
    /\ pc[t] = "trait_fill"
    /\ LET trait == TRAIT_KEYWORDS[loc[t].k][1]
           emb   == Encode(TraitText(trait, TRAIT_KEYWORDS[loc[t].k][2]))
           owner == trait_owner.val
       IN  /\ trait_dicts' = [trait_dicts EXCEPT ![owner] = Put(@, trait, emb)]
           /\ trait_embs' = Some(trait_dicts'[owner])
    /\ trait_encodes' = trait_encodes + 1
    /\ loc' = [loc EXCEPT ![t].k = @ + 1]
    /\ Goto(t, IF loc[t].k = Len(TRAIT_KEYWORDS) THEN "trait_ret" ELSE "trait_fill")
    /\ UNCHANGED <<cachevars, encoded, last_call, corpus_reads, corpus_encodes, trait_owner>>
    /\ RaceFrame

\* return _trait_embs
TraitRet(t) ==
    /\ pc[t] = "trait_ret"
    /\ loc' = [loc EXCEPT ![t].t_ref = trait_owner]
    /\ Goto(t, "score")
    /\ UNCHANGED <<cachevars, trait_embs, encoded, last_call, countvars, trait_dicts,
                   trait_owner>>
    /\ RaceFrame

\* The rest of _trait_alignment_score for career i, reading the dict it was
\* given as that dict is now.  (With a career embedding at hand the scorer does
\* not call the loader.)
Score(t) ==
    /\ pc[t] = "score"
    /\ LET i == loc[t].i
           trait == TraitAlignmentScore(loc[t].req.trait_scores, loc[t].career_list.val[i],
                                        CareerEmb(loc[t].career_embeddings.val, i),
                                        trait_dicts[loc[t].t_ref.val])
       IN  IF trait.raised
           THEN /\ loc' = [loc EXCEPT ![t].result = Some(trait)]
                /\ Goto(t, "done")
           ELSE /\ loc' = [loc EXCEPT ![t].traits_out = Append(@, trait), ![t].i = @ + 1]
                /\ Goto(t, NextCareer(t))
    /\ UNCHANGED <<cachevars, trait_embs, encoded, last_call, countvars, trait_dicts,
                   trait_owner>>
    /\ RaceFrame

\* The marks score, the combination and the label of every career, the sort and
\* the slice
Finish(t) ==
    /\ pc[t] = "finish"
    /\ LET loaded == [career_list |-> loc[t].career_list.val]
           sims_scaled == ScaleSims(loc[t].sims_list)
           recs == [i \in 1..Len(loaded.career_list) |->
                       RecWith(loc[t].req, loaded, loc[t].sims_list, sims_scaled, i,
                               loc[t].traits_out[i]).val]
           out == Returns(SortAndCut(recs, loc[t].req.top_k))
       IN  /\ loc' = [loc EXCEPT ![t].result = Some(out)]
           /\ last_call' = Some([req |-> loc[t].req, out |-> out,
                                 cold |-> loc[t].l_list # None])
    /\ Goto(t, "done")
    /\ UNCHANGED <<cachevars, trait_embs, encoded, countvars, trait_dicts, trait_owner>>
    /\ RaceFrame

\* The steps both race specifications take
CommonStep(t) ==
    \/ Call(t) \/ LoadCheck(t)
    \/ RetList(t) \/ RetTexts(t) \/ RetEmbs(t)
    \/ CosEncode(t) \/ TraitCheck(t) \/ Finish(t)

RaceNext ==
    \E t \in Threads :
        \/ CommonStep(t)
        \/ LoadRead(t) \/ LoadEncode(t) \/ PubList(t) \/ PubTexts(t) \/ PubEmbs(t)

TraitRaceNext ==
    \E t \in Threads :
        \/ CommonStep(t)
        \/ TraitNew(t) \/ TraitFill(t) \/ TraitRet(t) \/ Score(t)

SpecRace == RaceInit /\ [][RaceNext]_vars

SpecTraitRace == TraitRaceInit /\ [][TraitRaceNext]_vars

\* An entity list, a text list and an embedding matrix of one length, the text
\* and the embedding at each index made from the entity at that index
Aligned(list, texts, embs) ==
    /\ Len(texts) = Len(list)
    /\ Len(embs) = Len(list)
    /\ \A i \in 1..Len(list) : texts[i] = BuildText(list[i]) /\ embs[i] = Encode(texts[i])

\* C18: two concurrent requests that both find the corpus cache empty may both
\* populate it, and under every interleaving each ranks against an entity list,
\* a text list and an embedding matrix of the same length and index-aligned
\* (the tuple recommend() keeps, and the matrix _cosine_similarities takes),
\* and the cache, once both are done, is as one population leaves it.
C18_BenignRace ==
    /\ \A t \in Threads :
           /\ loc[t].career_list # None
                  => /\ loc[t].career_texts # None
                     /\ loc[t].career_embeddings # None
                     /\ Aligned(loc[t].career_list.val, loc[t].career_texts.val,
                                loc[t].career_embeddings.val)
           /\ pc[t] \in {"cos_encode", "career", "finish"}
                  => /\ loc[t].cos_embeddings # None
                     /\ Aligned(loc[t].career_list.val, loc[t].career_texts.val,
                                loc[t].cos_embeddings.val)
           /\ pc[t] = "done" => ~loc[t].result.val.raised
    /\ (\A t \in Threads : pc[t] = "done")
           => /\ corpus_encodes \in {1, 2}
              /\ career_list = Some(LoadFresh.val.career_list)
              /\ career_texts = Some(LoadFresh.val.career_texts)
              /\ career_embeddings = Some(LoadFresh.val.career_embeddings)

\* C18 witness: both requests found the cache empty, both encoded the corpus,
\* and both returned rows.
C18_Witness ==
    /\ \A t \in Threads : pc[t] = "done" /\ loc[t].l_embs # None
    /\ corpus_encodes = 2
    /\ \A t \in Threads : ~loc[t].result.val.raised /\ Len(loc[t].result.val.val) >= 2

\* C19: a request that has obtained the trait index from
\* _get_trait_embeddings() scores with an embedding for each of the 7 fixed
\* traits: never with an index another request has published and not yet
\* filled.
C19_CompleteTraitIndex ==
    \A t \in Threads :
        pc[t] = "score"
            => \A trait \in FixedTraits : HasKey(trait_dicts[loc[t].t_ref.val], trait)

=============================================================================
